---- MODULE Spec2Model ----
(***************************************************************************)
(* Verification model of AppScale components:                              *)
(*   - BackoffSequence and the retry wrappers (common/retrying.py,         *)
(*     common/async_retrying.py),                                          *)
(*   - the per-key serializer _PersistentWatch (common/async_retrying.py), *)
(*   - the Hermes resource handler's cluster fan-out                       *)
(*     (hermes/resources/resource_handlers.py),                            *)
(*   - the Hermes process sampler (hermes/resources/process.py).           *)
(* Each component has its own specification over the shared variables:     *)
(* SpecWatch with SpecInstances (both serializers of the module) and       *)
(* FairOneNode (all calls for one node, with fairness), SpecRetry,         *)
(* SpecPair (both retry wrappers in step), SpecCall, SpecBackoff,          *)
(* SpecCluster with SpecBulk (one request over more locations than the     *)
(* semaphore has permits) and SpecFanout (the nodes that answer, refuse or *)
(* time out), SpecProcess (list_processes) and SpecDiscovery               *)
(* (get_known_processes).                                                  *)
(***************************************************************************)
EXTENDS Integers, Sequences, FiniteSets, TLC

VARIABLES
  now,        \* the clock read by time.time() and IOLoop.time()
  \* ---- _PersistentWatch -------------------------------------------------
  w_par,      \* retry parameters handed to every persistent_execute
  w_pc,       \* position of each call of persistent_execute
  w_node,     \* the node (key) each call was made for
  w_lock,     \* node_lock: the _CompliantLock object each call uses
  w_seq,      \* backoff_sequence of each call
  w_deadline, \* deadline of the call's condition.wait(now + backoff)
  w_out,      \* how each call ended
  w_calls,    \* number of invocations of func by each call
  w_conc,     \* history: calls of the same node in progress when a call began
  w_during,   \* history: calls that arrived for the node while this one slept
  locks,      \* self._locks: node -> _CompliantLock object (0: no entry)
  lk,         \* the _CompliantLock objects: waiters, lock holder, lock queue
  \* ---- _Retry.wrap ------------------------------------------------------
  r_par,      \* the retryer's parameters
  r_pc,       \* position of the wrapped call
  r_seq,      \* its backoff_sequence
  r_calls,    \* number of invocations of func
  r_sleeps,   \* the arguments of time.sleep, in order
  r_yielded,  \* the values next(backoff_sequence) returned, in order
  r_out,      \* what the caller got
  r_raised,   \* the invocation whose error was surfaced (0: none)
  r_last,     \* how the latest invocation of func ended
  r_all_accepted, \* history: every invocation so far raised an accepted error
  r_cause,    \* history: why the wrapper gave up
  r_logs,     \* the levels of the records the wrapper logged
  \* ---- ResourceHandler (cluster fan-out) --------------------------------
  peer,       \* how each remote hermes answers GET /v2/<resource>
  local_src,  \* what local_source() yields on this node
  bodies,     \* the request bodies clients send to /_cluster
  max_concurrency,      \* value of the semaphore
  q_pc,                 \* position of each list_cluster request
  hermes_locations,     \* of each request
  q_pending,            \* per location: process_node_result tasks running
  q_raised,             \* gather was given an exception by one of its tasks
  entities_json_list,   \* of each request
  failures,             \* of each request
  q_status,             \* status of the response (0: none yet)
  joined_entities_json, \* "entities" of the response body
  q_failed,             \* history: locations that failed, as they completed
  q_ok,                 \* history: what the others held, as they completed
  q_log,                \* history: the body, local calls and HTTP requests
  \* ---- _Retry.__call__ --------------------------------------------------
  c_self,     \* the parameters of the retryer that is called
  c_args,     \* the arguments of the call
  c_result,   \* what the call returned
  \* ---- _RetryCoroutine.wrap ---------------------------------------------
  co,         \* the coroutine wrapper run beside the blocking one
  \* ---- BackoffSequence used directly ------------------------------------
  bs,         \* a sequence, the calls made on it and what they returned
  \* ---- list_processes ---------------------------------------------------
  PREVIOUS_STATE, \* Process.PREVIOUS_STATE: long_pid -> sample
  scrapes,        \* each execution of list_processes: position, start_time
  listed,         \* the execution that ended last and what it gave
  discovery       \* an execution of get_known_processes: position, replies

watchVars == <<w_par, w_pc, w_node, w_lock, w_seq, w_deadline, w_out, w_calls,
               w_conc, w_during, locks, lk>>

retryVars == <<r_par, r_pc, r_seq, r_calls, r_sleeps, r_yielded, r_out,
               r_raised, r_last, r_all_accepted, r_cause, r_logs>>

clusterVars == <<peer, local_src, bodies, max_concurrency, q_pc,
                 hermes_locations, q_pending, q_raised, entities_json_list,
                 failures, q_status, joined_entities_json, q_failed, q_ok,
                 q_log>>

callVars == <<c_self, c_args, c_result>>

\* The variables of the components modelled after the cluster fan-out.
procVars == <<PREVIOUS_STATE, scrapes, listed, discovery>>
restVars == <<callVars, co, bs, procVars>>

vars == <<now, watchVars, retryVars, clusterVars, restVars>>

\* ------------------------------------------------------------------------
\* Bounds of the model.
NumCalls == 3      \* calls of persistent_execute
MaxTime == 2       \* the clock stops advancing here (serializer runs)
MaxRetries == 3    \* largest max_retries a retryer is given
MaxClock == 400    \* the clock stops advancing here (retry runs), in 0.01 s
NumReqs == 2       \* list_cluster requests

Min(a, b) == IF a < b THEN a ELSE b

\* ------------------------------------------------------------------------
\* BackoffSequence (retrying.py).  None is modelled as 0: both are falsy.

BackoffSequence(base, multiplier, threshold, max_retries, timeout, randomize) ==
  [base |-> base, backoff |-> multiplier, threshold |-> threshold,
   max_retries |-> max_retries, timeout |-> timeout, randomize |-> randomize,
   attempt_num |-> 0, promised_next |-> FALSE, start_time |-> 0]

\* __iter__: records the start time.
Iter(s, t) == [s EXCEPT !.start_time = t]

RetriesExceededAtZero(s) == s.attempt_num > s.max_retries

RetriesExceededOffByOne(s) ==
  s.max_retries # 0 /\ s.attempt_num >= s.max_retries

\* _has_next, first test: the attempt count.
RetriesExceeded(s) ==
  s.max_retries # 0 /\ s.attempt_num > s.max_retries

TimeoutExceededNow(s, t, after_backoff) ==
  s.timeout # 0 /\ t - s.start_time > s.timeout

\* _has_next, second test: the timeout, now or after the latest backoff.
TimeoutExceeded(s, t, after_backoff) ==
  /\ s.timeout # 0
  /\ (IF after_backoff THEN t + s.backoff ELSE t) - s.start_time > s.timeout

PrivateHasNext(s, t, after_backoff) ==
  IF RetriesExceeded(s) THEN FALSE
  ELSE IF TimeoutExceeded(s, t, after_backoff) THEN FALSE
  ELSE TRUE

HasNextForgets(s, t) ==
  [has_more |-> PrivateHasNext(s, t, TRUE), seq |-> s]

\* has_next(): the answer and the sequence with the promise recorded.
HasNext(s, t) ==
  LET has_more == PrivateHasNext(s, t, TRUE)
  IN  [has_more |-> has_more,
       seq |-> IF has_more THEN [s EXCEPT !.promised_next = TRUE] ELSE s]

SeqNextUncapped(s, t, r) ==
  IF ~PrivateHasNext(s, t, FALSE) /\ ~s.promised_next
  THEN [stop |-> TRUE, seq |-> s]
  ELSE LET b1 == IF s.attempt_num # 0 THEN s.backoff * s.base ELSE s.backoff
           b3 == IF s.randomize THEN (b1 * r) \div 100 ELSE b1
       IN  [stop |-> FALSE,
            seq |-> [s EXCEPT !.backoff = b3, !.promised_next = FALSE,
                              !.attempt_num = s.attempt_num + 1]]

\* next(): StopIteration, or the delay and the advanced sequence.
\* r is random.random() * 0.3 + 0.85 in hundredths.
SeqNext(s, t, r) ==
  IF ~PrivateHasNext(s, t, FALSE) /\ ~s.promised_next
  THEN [stop |-> TRUE, seq |-> s]
  ELSE LET b1 == IF s.attempt_num # 0 THEN s.backoff * s.base ELSE s.backoff
           b2 == Min(b1, s.threshold)
           b3 == IF s.randomize THEN (b2 * r) \div 100 ELSE b2
       IN  [stop |-> FALSE,
            seq |-> [s EXCEPT !.backoff = b3, !.promised_next = FALSE,
                              !.attempt_num = s.attempt_num + 1]]

\* ------------------------------------------------------------------------
\* _PersistentWatch (async_retrying.py).

Calls == 1..NumCalls
Nodes == {"/a", "/b"}
NoLock == 0

NewLock == [waiters |-> 0, holder |-> 0, queue |-> <<>>]

WatchParams ==
  [max_retries : {1, 2}, timeout : {0, 2}]

\* The value of backoff_sequence while a call has none.
NoSequence == BackoffSequence(2, 1, 2, 0, 0, FALSE)

\* The retry wrapper before any call of it (and in runs of the other
\* components).
RetryIdle ==
  /\ r_pc = "idle"
  /\ r_seq = NoSequence
  /\ r_calls = 0
  /\ r_sleeps = <<>>
  /\ r_yielded = <<>>
  /\ r_out = "none"
  /\ r_raised = 0
  /\ r_last = "none"
  /\ r_all_accepted = TRUE
  /\ r_cause = "none"
  /\ r_logs = <<>>

\* The serializer after construction: an empty table, no call made.
WatchIdle ==
  /\ w_pc = [c \in Calls |-> "idle"]
  /\ w_node = [c \in Calls |-> "/a"]
  /\ w_lock = [c \in Calls |-> NoLock]
  /\ w_seq = [c \in Calls |-> NoSequence]
  /\ w_deadline = [c \in Calls |-> 0]
  /\ w_out = [c \in Calls |-> "none"]
  /\ w_calls = [c \in Calls |-> 0]
  /\ w_conc = [c \in Calls |-> {}]
  /\ w_during = [c \in Calls |-> {}]
  /\ locks = [n \in Nodes |-> NoLock]
  /\ lk = [i \in Calls |-> NewLock]

\* The parameters of the default retryer "retry", in hundredths of a second.
DefaultRetryParams ==
  [base |-> 2, multiplier |-> 20, threshold |-> 30000,
   max_retries |-> 10, timeout |-> 6000, randomize |-> FALSE]

\* ------------------------------------------------------------------------
\* ResourceHandler (resource_handlers.py): bytes, JSON and the nodes.
\* Bytes are sequences of tokens: a token is a JSON punctuation mark, a space,
\* a line feed, BODY_CONNECTOR, or the text of one JSON object.

MaxConcurrency == 100
HERMES_PORT == 4378
BODY_CONNECTOR == "\\n\\n\\xff\\xff\\xff\\xff\\n\\n"

Reqs == 1..NumReqs
private_ip == "10.0.2.15"
BulkHost == "10.0.9.9"
\* A host named by one character.
CharHost == "x"
RemoteHosts == {"10.0.2.16", "10.0.2.17", BulkHost, CharHost}

\* A location "<host>[:<port>]"; NoPort when it has no ":<port>".
NoPort == 0
Location(host, port) == [host |-> host, port |-> port]
Locations == [host : {private_ip} \cup RemoteHosts, port : {NoPort, HERMES_PORT}]

\* The text of the resource entities (JSON objects) a node may hold.
EntityLists == {<<>>, <<"{\"pid\": 1}">>, <<"{\"pid\": 1}", "{\"pid\": 2}">>}

\* The text of the failure {"host": h, "message": "m"}.
FailureJson ==
  [h \in {private_ip} \cup RemoteHosts |->
     CASE h = "10.0.2.15" -> "{\"host\": \"10.0.2.15\", \"message\": \"m\"}"
       [] h = "10.0.2.16" -> "{\"host\": \"10.0.2.16\", \"message\": \"m\"}"
       [] h = "10.0.2.17" -> "{\"host\": \"10.0.2.17\", \"message\": \"m\"}"
       [] OTHER -> "{\"host\": \"10.0.9.9\", \"message\": \"m\"}"]

JsonObjects ==
  {"{\"pid\": 1}", "{\"pid\": 2}"}
  \cup {FailureJson[h] : h \in {private_ip} \cup RemoteHosts}

\* bytes.join (by halves, to keep the evaluation shallow)
RECURSIVE Join(_, _)
Join(parts, sep) ==
  IF Len(parts) = 0 THEN <<>>
  ELSE IF Len(parts) = 1 THEN parts[1]
  ELSE LET m == Len(parts) \div 2
       IN  Join(SubSeq(parts, 1, m), sep) \o sep
             \o Join(SubSeq(parts, m + 1, Len(parts)), sep)

\* bytes.split(sep)
RECURSIVE Split(_, _)
Split(s, sep) ==
  IF \E i \in 1..Len(s) : s[i] = sep
  THEN LET i == CHOOSE k \in 1..Len(s) :
                  s[k] = sep /\ \A j \in 1..(k - 1) : s[j] # sep
       IN  <<SubSeq(s, 1, i - 1)>> \o Split(SubSeq(s, i + 1, Len(s)), sep)
  ELSE <<s>>

\* bytes.strip(chars)
RECURSIVE LStrip(_, _)
LStrip(s, chars) ==
  IF Len(s) > 0 /\ s[1] \in chars THEN LStrip(Tail(s), chars) ELSE s

RECURSIVE RStrip(_, _)
RStrip(s, chars) ==
  IF Len(s) > 0 /\ s[Len(s)] \in chars
  THEN RStrip(SubSeq(s, 1, Len(s) - 1), chars)
  ELSE s

Strip(s, chars) == RStrip(LStrip(s, chars), chars)

\* json.dumps of a list of objects: "[" obj ", " obj ... "]".
Dumps(items) ==
  <<"[">> \o Join([i \in 1..Len(items) |-> <<items[i]>>], <<",", " ">>)
          \o <<"]">>

\* json.loads of the text of a list of objects: whether it decodes, and the
\* objects.  White space between the tokens is insignificant.
Loads(s) ==
  LET t == SelectSeq(s, LAMBDA x : x \notin {" ", "\n"})
      n == Len(t)
      ok == /\ n >= 2
            /\ t[1] = "["
            /\ t[n] = "]"
            /\ n = 2 \/ n % 2 = 1
            /\ \A i \in 2..(n - 1) :
                 IF i % 2 = 0 THEN t[i] \in JsonObjects ELSE t[i] = ","
  IN  [ok |-> ok,
       items |-> IF ok THEN [k \in 1..((n - 1) \div 2) |-> t[2 * k]] ELSE <<>>]

\* What local_source() does: raises, or returns (entities, failure strings).
Sources ==
  [raises : {FALSE}, entities : EntityLists, failures : {<<>>}]
  \cup {[raises |-> FALSE, entities |-> <<"{\"pid\": 1}">>,
         failures |-> <<"m">>],
        [raises |-> TRUE, entities |-> <<>>, failures |-> <<>>]}

\* _call_local_source on the node with address ip.
CallLocalSource(src, ip) ==
  [raises |-> src.raises,
   entities |-> src.entities,
   failures |-> [i \in 1..Len(src.failures) |->
                   [host |-> Location(ip, NoPort),
                    message |-> src.failures[i]]]]

\* The answer of a hermes to GET /v2/<resource>.
Answer(kind, status, body) == [kind |-> kind, status |-> status, body |-> body]

\* list_local on the node with address ip; a handler that raises is answered
\* with 500 by the web server.
ListLocal(src, ip, two_json_objects) ==
  LET res == CallLocalSource(src, ip)
      entities == Dumps(res.entities)
      fails == Dumps([i \in 1..Len(res.failures) |->
                        FailureJson[res.failures[i].host.host]])
  IN  IF res.raises THEN Answer("response", 500, <<>>)
      ELSE IF two_json_objects
      THEN Answer("response", 200,
                  entities \o <<" ", BODY_CONNECTOR, " ">> \o fails)
      ELSE Answer("response", 200,
                  <<"{\"entities\": ">> \o entities \o <<", \"failures\": ">>
                    \o fails \o <<"}">>)

\* What a remote host may answer: list_local's answers, no connection, no
\* answer in time, a body without the connector (the regular JSON body), with
\* two connectors, and with a failures part that is not JSON.
Answers(h) ==
  {ListLocal(src, h, TRUE) : src \in Sources}
  \cup {Answer("refused", 0, <<>>),
        Answer("timeout", 0, <<>>),
        ListLocal([raises |-> FALSE, entities |-> <<>>, failures |-> <<>>],
                  h, FALSE),
        Answer("response", 200,
               <<"[", "]", " ", BODY_CONNECTOR, " ", BODY_CONNECTOR>>),
        Answer("response", 200,
               <<"[", "]", " ", BODY_CONNECTOR, " ", "<html>">>)}

\* The body of a request to /_cluster: whether there is one, whether
\* (await request.json())['locations'] gives a value, whether the value is
\* an array, and the items that iterating over the value gives (the
\* characters of a str).
Body(has_body, valid, is_array, locations) ==
  [has_body |-> has_body, valid |-> valid, is_array |-> is_array,
   locations |-> locations]

\* default_ips_getter()
DefaultIps == <<Location(private_ip, NoPort), Location("10.0.2.16", NoPort)>>

\* No body; a body without "locations"; {"locations": "x"}; and bodies
\* with an array of locations.
ClusterBodies ==
  {Body(FALSE, FALSE, FALSE, <<>>),
   Body(TRUE, FALSE, FALSE, <<>>),
   Body(TRUE, TRUE, FALSE, <<Location(CharHost, NoPort)>>),
   Body(TRUE, TRUE, TRUE, <<Location("10.0.2.16", HERMES_PORT)>>),
   Body(TRUE, TRUE, TRUE, <<Location("10.0.2.16", NoPort),
                            Location("10.0.2.17", NoPort)>>),
   Body(TRUE, TRUE, TRUE, <<Location(private_ip, HERMES_PORT),
                            Location(private_ip, NoPort)>>)}

\* More remote locations in one request than the semaphore has permits.
BulkBody ==
  Body(TRUE, TRUE, TRUE,
       [i \in 1..(MaxConcurrency + 1) |-> Location(BulkHost, NoPort)])

\* The handler after construction: all permits free, no request received.
ClusterIdle ==
  /\ max_concurrency = MaxConcurrency
  /\ q_pc = [r \in Reqs |-> "idle"]
  /\ hermes_locations = [r \in Reqs |-> <<>>]
  /\ q_pending = [r \in Reqs |-> [l \in Locations |-> 0]]
  /\ q_raised = [r \in Reqs |-> FALSE]
  /\ entities_json_list = [r \in Reqs |-> <<>>]
  /\ failures = [r \in Reqs |-> <<>>]
  /\ q_status = [r \in Reqs |-> 0]
  /\ joined_entities_json = [r \in Reqs |-> <<>>]
  /\ q_failed = [r \in Reqs |-> <<>>]
  /\ q_ok = [r \in Reqs |-> <<>>]
  /\ q_log = [r \in Reqs |-> [body |-> <<>>, local |-> 0, gets |-> <<>>]]

\* The nodes when only the other components run.
ClusterUnused ==
  /\ peer = [h \in RemoteHosts |-> Answer("refused", 0, <<>>)]
  /\ local_src = [raises |-> FALSE, entities |-> <<>>, failures |-> <<>>]
  /\ bodies = {}
  /\ ClusterIdle

\* ------------------------------------------------------------------------
\* _Retry.__init__ and __call__ (retrying.py): retryers and their parameters.

ParamNames ==
  {"backoff_base", "backoff_multiplier", "backoff_threshold", "max_retries",
   "retrying_timeout", "randomize_backoff", "retry_on_exception"}

\* _Retry(...): the retryer with these parameters (times in hundredths).
Retryer(base, multiplier, threshold, max_retries, timeout, randomize, on_exception) ==
  [backoff_base |-> base, backoff_multiplier |-> multiplier,
   backoff_threshold |-> threshold, max_retries |-> max_retries,
   retrying_timeout |-> timeout, randomize_backoff |-> randomize,
   retry_on_exception |-> on_exception]

\* retry = _Retry(DEFAULT_...)
DefaultRetryer == Retryer(2, 20, 30000, 10, 6000, FALSE, "Exception")

\* The arguments of retryer(func, **custom): func ("None" when omitted), the
\* names of the parameters that are not MISSED, and their values.
CallArgs(func, given, vals) == [func |-> func, given |-> given, vals |-> vals]

NoCall == CallArgs("None", {}, DefaultRetryer)

\* What __call__ returns; kind "none" before the call.
CallResult(kind, params, func) ==
  [kind |-> kind, params |-> params, func |-> func]

\* No retryer is being customized.
CallIdle ==
  /\ c_self = DefaultRetryer
  /\ c_args = NoCall
  /\ c_result = CallResult("none", DefaultRetryer, "None")

\* The coroutine wrapper before any call of it: its position, its
\* backoff_sequence, the invocations and sleeps made, and how it ended.
CoIdle ==
  [pc |-> "idle", seq |-> NoSequence, calls |-> 0, sleeps |-> <<>>,
   out |-> "none", raised |-> 0, logs |-> <<>>]

\* A BackoffSequence nobody has called yet: the sequence, the successful
\* __iter__ calls, the delays next() returned, whether has_next() answered
\* True since the last next(), and the last call with its result, the clock
\* it read and whether it had been promised.
BsIdle ==
  [seq |-> NoSequence, multiplier |-> 1, iters |-> 0, delays |-> <<>>,
   told |-> FALSE, op |-> "none", result |-> "none", at |-> 0,
   was_told |-> FALSE]

NumScrapes == 2

\* The executions of list_processes that may overlap.
Scrapes == 1..NumScrapes

\* No execution of list_processes has ended yet.
NoScrape ==
  [outcome |-> "none", start_time |-> 0, prev |-> <<>>, keys |-> {},
   withheld |-> {}, known_processes |-> <<>>, processes |-> <<>>]

\* get_known_processes not called yet.
DiscoveryIdle ==
  [pc |-> "idle", listings |-> <<>>, services |-> <<>>, replies |-> <<>>,
   service_processes |-> <<>>, slice |-> <<>>, known_processes |-> <<>>]

\* The process sampler before its first scrape.
ProcIdle ==
  /\ PREVIOUS_STATE = <<>>
  /\ scrapes = [s \in Scrapes |-> [pc |-> "idle", start_time |-> 0]]
  /\ listed = NoScrape
  /\ discovery = DiscoveryIdle

\* The components modelled after the cluster fan-out, not in use.
RestIdle ==
  /\ CallIdle
  /\ co = CoIdle
  /\ bs = BsIdle
  /\ ProcIdle

\* Calls between persistent_execute's first and last statement.
InProgress(c) == w_pc[c] \notin {"idle", "done"}

\* node_lock.condition.notify_all(): the wait of every call sleeping on this
\* lock's condition resolves to True.
NotifyAllNothing(pc, id) == pc

NotifyAllOfAnyLock(pc, id) ==
  [d \in Calls |-> IF pc[d] = "sleeping" THEN "woken" ELSE pc[d]]

NotifyAll(pc, id) ==
  [d \in Calls |->
     IF pc[d] = "sleeping" /\ w_lock[d] = id THEN "woken" ELSE pc[d]]

\* tornado Lock.release(): the lock passes to the first queued acquirer,
\* whose coroutine resumes later.
ReleaseKeepsHolder(l) ==
  IF l.queue = <<>> THEN l ELSE [l EXCEPT !.queue = Tail(l.queue)]

Release(l) ==
  IF l.queue = <<>>
  THEN [l EXCEPT !.holder = 0]
  ELSE [l EXCEPT !.holder = Head(l.queue), !.queue = Tail(l.queue)]

GrantNobody(pc, l) == pc

Grant(pc, l) ==
  IF l.queue = <<>> THEN pc ELSE [pc EXCEPT ![Head(l.queue)] = "acquired"]

\* "if not node_lock.waiters: del self._locks[node]": the table afterwards and
\* whether del raised KeyError.
DelAlways(tbl, node, l) ==
  [locks |-> [tbl EXCEPT ![node] = NoLock], key_error |-> tbl[node] = NoLock]

DelNever(tbl, node, l) ==
  [locks |-> tbl, key_error |-> FALSE]

DelIfWaiters(tbl, node, l) ==
  IF l.waiters # 0
  THEN [locks |-> [tbl EXCEPT ![node] = NoLock], key_error |-> tbl[node] = NoLock]
  ELSE [locks |-> tbl, key_error |-> FALSE]

DelIfNoWaiters(tbl, node, l) ==
  IF l.waiters = 0
  THEN [locks |-> [tbl EXCEPT ![node] = NoLock], key_error |-> tbl[node] = NoLock]
  ELSE [locks |-> tbl, key_error |-> FALSE]

\* A call leaves the "with" block and returns or raises: "del" when no call
\* waits, and the lock is released.  how is what the caller gets: "result",
\* "error", "superseded" or "unbound_result"; a KeyError of del replaces it.
\* The coroutine's locals are gone afterwards.
Leave(c, how, lkNow, pcNow, tblNow) ==
  LET id == w_lock'[c]
      d == DelIfNoWaiters(tblNow, w_node'[c], lkNow[id])
  IN  /\ locks' = d.locks
      /\ lk' = [lkNow EXCEPT ![id] = Release(lkNow[id])]
      /\ w_pc' = [Grant(pcNow, lkNow[id]) EXCEPT ![c] = "done"]
      /\ w_out' = [w_out EXCEPT ![c] = IF d.key_error THEN "key_error" ELSE how]
      /\ w_seq' = [w_seq EXCEPT ![c] = NoSequence]
      /\ w_deadline' = [w_deadline EXCEPT ![c] = 0]
      /\ w_calls' = w_calls

StartIterationIfNoWaiters(c, s, lkNow, pcNow, tblNow) ==
  LET nx == SeqNext(s, now, 100)
  IN  IF lkNow[w_lock'[c]].waiters # 0
      THEN Leave(c, "superseded", lkNow, pcNow, tblNow)
      ELSE IF nx.stop
      THEN Leave(c, "unbound_result", lkNow, pcNow, tblNow)
      ELSE /\ w_seq' = [w_seq EXCEPT ![c] = nx.seq]
           /\ lk' = lkNow
           /\ w_pc' = [pcNow EXCEPT ![c] = "running"]
           /\ locks' = tblNow
           /\ w_calls' = [w_calls EXCEPT ![c] = w_calls[c] + 1]
           /\ w_deadline' = [w_deadline EXCEPT ![c] = 0]
           /\ w_out' = w_out

\* The start of a retrying iteration: next(backoff_sequence), then func is
\* invoked.  A StopIteration ends the loop without a result, and
\* "raise gen.Return(result)" then fails on the unbound name.
StartIteration(c, s, lkNow, pcNow, tblNow) ==
  LET nx == SeqNext(s, now, 100)
  IN  IF nx.stop
      THEN Leave(c, "unbound_result", lkNow, pcNow, tblNow)
      ELSE /\ w_seq' = [w_seq EXCEPT ![c] = nx.seq]
           /\ lk' = lkNow
           /\ w_pc' = [pcNow EXCEPT ![c] = "running"]
           /\ locks' = tblNow
           /\ w_calls' = [w_calls EXCEPT ![c] = w_calls[c] + 1]
           /\ w_deadline' = [w_deadline EXCEPT ![c] = 0]
           /\ w_out' = w_out

NodeLockOfAnyNode(tbl, node, c) ==
  IF \A n \in DOMAIN tbl : tbl[n] = NoLock THEN c
  ELSE tbl[CHOOSE n \in DOMAIN tbl : tbl[n] # NoLock]

\* node_lock = self._locks[node]: the lock the table holds for the node, or
\* the new one the defaultdict makes for the call that finds none.
NodeLock(tbl, node, c) == IF tbl[node] = NoLock THEN c ELSE tbl[node]

\* persistent_execute up to its first suspension: look the lock up (the
\* defaultdict creates it), wake the sleepers, count as a waiter and acquire.
\* Calls are numbered in the order they are made, the first one for "/a".
Call(c, node) ==
  /\ w_pc[c] = "idle"
  /\ IF c = 1 THEN node = "/a" ELSE w_pc[c - 1] # "idle"
  /\ LET id == NodeLock(locks, node, c)
         fresh == IF locks[node] = NoLock THEN [lk EXCEPT ![c] = NewLock] ELSE lk
         tbl == [locks EXCEPT ![node] = id]
         woken == NotifyAll(w_pc, id)
         counted == [fresh EXCEPT ![id].waiters = fresh[id].waiters + 1]
         sequence == BackoffSequence(2, 1, 2, w_par.max_retries,
                                     w_par.timeout, FALSE)
     IN  /\ w_node' = [w_node EXCEPT ![c] = node]
         /\ w_lock' = [w_lock EXCEPT ![c] = id]
         /\ w_conc' = [w_conc EXCEPT ![c] =
                         {d \in Calls : InProgress(d) /\ w_node[d] = node}]
         /\ w_during' = [d \in Calls |->
                           IF w_pc[d] = "sleeping" /\ w_node[d] = node
                           THEN w_during[d] \cup {c} ELSE w_during[d]]
         /\ IF counted[id].holder = 0
            THEN \* the lock is free: acquire() is done, the coroutine goes on
                 StartIteration(c, Iter(sequence, now),
                      [counted EXCEPT ![id].holder = c,
                                      ![id].waiters = counted[id].waiters - 1],
                      woken, tbl)
            ELSE /\ locks' = tbl
                 /\ lk' = [counted EXCEPT ![id].queue = Append(counted[id].queue, c)]
                 /\ w_pc' = [woken EXCEPT ![c] = "waiting"]
                 /\ w_seq' = [w_seq EXCEPT ![c] = sequence]
                 /\ UNCHANGED <<w_out, w_calls, w_deadline>>
  /\ UNCHANGED <<now, retryVars, clusterVars, restVars, w_par>>

\* The coroutine resumes with the lock it was handed: "node_lock.waiters -= 1"
\* and the first retrying iteration.
Acquired(c) ==
  /\ w_pc[c] = "acquired"
  /\ UNCHANGED <<now, retryVars, clusterVars, restVars, w_par, w_node, w_lock, w_conc, w_during>>
  /\ StartIteration(c, Iter(w_seq[c], now),
                    [lk EXCEPT ![w_lock[c]].waiters = lk[w_lock[c]].waiters - 1],
                    w_pc, locks)

\* The "except" branch: fail is decided by has_next() and check_exception.
FailDecisionNoPredicate(s, t, accepted) == ~HasNext(s, t).has_more

FailDecision(s, t, accepted) ==
  IF ~HasNext(s, t).has_more THEN TRUE
  ELSE IF ~accepted THEN TRUE
  ELSE FALSE

\* func returns (or its Future resolves): the result, or an exception that
\* check_exception accepts or rejects.
FuncDone(c, res) ==
  /\ w_pc[c] = "running"
  /\ UNCHANGED <<now, retryVars, clusterVars, restVars, w_par, w_node, w_lock, w_conc, w_during>>
  /\ IF res = "ok"
     THEN Leave(c, "result", lk, w_pc, locks)
     ELSE IF FailDecision(w_seq[c], now, res = "accepted")
          THEN Leave(c, "error", lk, w_pc, locks)
          ELSE \* condition.wait(now + backoff)
               /\ w_pc' = [w_pc EXCEPT ![c] = "sleeping"]
               /\ w_seq' = [w_seq EXCEPT ![c] = HasNext(w_seq[c], now).seq]
               /\ w_deadline' = [w_deadline EXCEPT ![c] =
                                    Min(now + w_seq[c].backoff, MaxTime)]
               /\ UNCHANGED <<locks, lk, w_out, w_calls>>

\* The timeout of condition.wait fires: the wait resolves to False.  (A
\* deadline beyond the last clock value fires at the last clock value.)
Expire(c) ==
  /\ w_pc[c] = "sleeping"
  /\ now >= w_deadline[c]
  /\ w_pc' = [w_pc EXCEPT ![c] = "expired"]
  /\ UNCHANGED <<now, retryVars, clusterVars, restVars, w_par, w_node, w_lock, w_seq, w_deadline,
                 w_out, w_calls, w_conc, w_during, locks, lk>>

\* "if interrupted or node_lock.waiters": give up, or go on retrying.
GivesUpOnlyIfInterrupted(interrupted, l) == interrupted

GivesUp(interrupted, l) == interrupted \/ l.waiters # 0

\* The coroutine resumes after condition.wait.
AfterWait(c) ==
  /\ w_pc[c] \in {"woken", "expired"}
  /\ UNCHANGED <<now, retryVars, clusterVars, restVars, w_par, w_node, w_lock, w_conc, w_during>>
  /\ IF GivesUp(w_pc[c] = "woken", lk[w_lock[c]])
     THEN Leave(c, "superseded", lk, w_pc, locks)
     ELSE StartIteration(c, w_seq[c], lk, w_pc, locks)

\* Time passes.  The clock is advanced only while a call can observe it: one
\* sleeps towards its deadline, or func runs under a retrying timeout.
WatchTick ==
  /\ now < MaxTime
  /\ \E c \in Calls :
       \/ w_pc[c] = "sleeping" /\ w_deadline[c] > now
       \/ w_pc[c] = "running" /\ w_seq[c].timeout # 0
  /\ now' = now + 1
  /\ UNCHANGED <<watchVars, retryVars, clusterVars, restVars>>

NextWatch ==
  \/ \E c \in Calls, node \in Nodes : Call(c, node)
  \/ \E c \in Calls : Acquired(c)
  \/ \E c \in Calls, res \in {"ok", "accepted", "rejected"} : FuncDone(c, res)
  \/ \E c \in Calls : Expire(c)
  \/ \E c \in Calls : AfterWait(c)
  \/ WatchTick

\* The serializer runs alone: the variables of the other components hold
\* nothing and are never read.
OthersUnused ==
  /\ r_par = 0
  /\ r_pc = 0
  /\ r_seq = 0
  /\ r_calls = 0
  /\ r_sleeps = 0
  /\ r_yielded = 0
  /\ r_out = 0
  /\ r_raised = 0
  /\ r_last = 0
  /\ r_all_accepted = 0
  /\ r_cause = 0
  /\ r_logs = 0
  /\ peer = 0
  /\ local_src = 0
  /\ bodies = 0
  /\ max_concurrency = 0
  /\ q_pc = 0
  /\ hermes_locations = 0
  /\ q_pending = 0
  /\ q_raised = 0
  /\ entities_json_list = 0
  /\ q_log = 0
  /\ failures = 0
  /\ q_status = 0
  /\ joined_entities_json = 0
  /\ q_failed = 0
  /\ q_ok = 0
  /\ c_self = 0
  /\ c_args = 0
  /\ c_result = 0
  /\ co = 0
  /\ bs = 0
  /\ PREVIOUS_STATE = 0
  /\ scrapes = 0
  /\ listed = 0
  /\ discovery = 0

InitWatch ==
  /\ now = 0
  /\ w_par \in WatchParams
  /\ WatchIdle
  /\ OthersUnused

SpecWatch == InitWatch /\ [][NextWatch]_vars

\* All calls are for one node.
NextOneNode ==
  \/ \E c \in Calls : Call(c, "/a")
  \/ \E c \in Calls : Acquired(c)
  \/ \E c \in Calls, res \in {"ok", "accepted", "rejected"} : FuncDone(c, res)
  \/ \E c \in Calls : Expire(c)
  \/ \E c \in Calls : AfterWait(c)
  \/ WatchTick

SpecOneNode == InitWatch /\ [][NextOneNode]_vars

\* What the IOLoop and func do of themselves: a coroutine whose Future is
\* resolved is resumed, func ends, time passes and timeouts fire.
Resumed ==
  \/ \E c \in Calls : Acquired(c)
  \/ \E c \in Calls, res \in {"ok", "accepted", "rejected"} : FuncDone(c, res)
  \/ \E c \in Calls : Expire(c)
  \/ \E c \in Calls : AfterWait(c)
  \/ WatchTick

\* The IOLoop does not stop while a callback or a timeout is due, and func
\* always ends.
FairOneNode == SpecOneNode /\ WF_vars(Resumed)

\* The two serializers of the module, each with a table of its own: the
\* table of both, by the entry a node has in either.
retry_data_watch_coroutine == [n \in Nodes |-> n]
retry_children_watch_coroutine ==
  [n \in Nodes |-> IF n = "/a" THEN "children:/a" ELSE "children:/b"]

\* The nodes that calls are made for through the two serializers.
WatchedThroughBoth ==
  {retry_data_watch_coroutine[n] : n \in Nodes}
    \cup {retry_children_watch_coroutine["/a"]}

\* Both serializers after construction, with max_retries=1 and no timeout.
InitInstances ==
  /\ now = 0
  /\ w_par = [max_retries |-> 1, timeout |-> 0]
  /\ w_pc = [c \in Calls |-> "idle"]
  /\ w_node = [c \in Calls |-> "/a"]
  /\ w_lock = [c \in Calls |-> NoLock]
  /\ w_seq = [c \in Calls |-> NoSequence]
  /\ w_deadline = [c \in Calls |-> 0]
  /\ w_out = [c \in Calls |-> "none"]
  /\ w_calls = [c \in Calls |-> 0]
  /\ w_conc = [c \in Calls |-> {}]
  /\ w_during = [c \in Calls |-> {}]
  /\ locks = [n \in WatchedThroughBoth |-> NoLock]
  /\ lk = [i \in Calls |-> NewLock]
  /\ OthersUnused

NextInstances ==
  \/ \E c \in Calls, node \in Nodes : Call(c, retry_data_watch_coroutine[node])
  \/ \E c \in Calls : Call(c, retry_children_watch_coroutine["/a"])
  \/ \E c \in Calls : Acquired(c)
  \/ \E c \in Calls, res \in {"ok", "accepted", "rejected"} : FuncDone(c, res)
  \/ \E c \in Calls : Expire(c)
  \/ \E c \in Calls : AfterWait(c)
  \/ WatchTick

SpecInstances == InitInstances /\ [][NextInstances]_vars

\* ------------------------------------------------------------------------
\* Properties of _PersistentWatch.

\* The critical section: func is invoked or awaited, or the call sleeps
\* between retries (its wait pending or resolved but not yet resumed).
InCritical(c) == w_pc[c] \in {"running", "sleeping", "woken", "expired"}

Started(c) == w_pc[c] # "idle"

\* c and d are the only calls made for their node, c was in progress when d
\* began, and both have returned.
TwoConcurrent(c, d) ==
  /\ c # d
  /\ w_pc[c] = "done" /\ w_pc[d] = "done"
  /\ c \in w_conc[d]
  /\ \A e \in Calls \ {c, d} : Started(e) => w_node[e] # w_node[c]

\* C1: for every node, at most one call for it is inside its critical
\* section (invoking or awaiting func, or sleeping between retries).
C1_MutualExclusion ==
  \A c, d \in Calls :
    (c # d /\ InCritical(c) /\ InCritical(d)) => w_node[c] # w_node[d]

\* C1 witness: a call is in its critical section while another call for the
\* same node waits for the lock.
C1_Witness ==
  \E c, d \in Calls :
    /\ InCritical(c) /\ w_pc[d] = "waiting" /\ w_node[c] = w_node[d]

\* C2 as claimed: of two concurrent calls for one node, exactly one returns a
\* result and the other returns superseded.
C2_ExactlyOneResult ==
  \A c, d \in Calls :
    TwoConcurrent(c, d) =>
      \/ w_out[c] = "result" /\ w_out[d] = "superseded"
      \/ w_out[c] = "superseded" /\ w_out[d] = "result"

\* C2 amended: of two concurrent calls for one node, the newer is never
\* superseded: it returns func's result or raises func's error; the older
\* returns its own result or error, or is superseded.
C2_NewerNeverSuperseded ==
  \A c, d \in Calls :
    TwoConcurrent(c, d) =>
      /\ w_out[d] \in {"result", "error"}
      /\ w_out[c] \in {"result", "error", "superseded"}

\* C2 witness: the older of two concurrent calls was superseded and the newer
\* returned a result, while a call for another node was made as well.
C2_Witness ==
  \E c, d \in Calls :
    /\ TwoConcurrent(c, d)
    /\ w_out[c] = "superseded" /\ w_out[d] = "result"
    /\ \E e \in Calls : Started(e) /\ w_node[e] # w_node[c]

\* C3: the table holds a node only while some call for that node is waiting
\* for or holding its lock; once all have returned the node is absent.
C3_TableHoldsOnlyLiveNodes ==
  \A n \in Nodes :
    locks[n] # NoLock => \E c \in Calls : InProgress(c) /\ w_node[c] = n

\* C3 witness: two overlapping calls for a node have both returned, one by
\* an error, and the node is absent from the table.
C3_Witness ==
  \E c, d \in Calls :
    /\ TwoConcurrent(c, d)
    /\ w_out[c] = "error"
    /\ locks[w_node[c]] = NoLock

\* C4: a call b arriving while a sleeps between retries wakes a before its
\* backoff expires; a never invokes func again and returns normally without
\* result or error; b invokes func only after a has returned, and b does
\* invoke it.
C4_NewerCallPreemptsSleeper ==
  \A a, b \in Calls :
    b \in w_during[a] =>
      /\ w_pc[a] \in {"woken", "done"}
      /\ w_pc[a] = "done" => w_out[a] = "superseded"
      /\ w_calls[b] > 0 => w_pc[a] = "done"
      /\ w_pc[b] = "done" => w_calls[b] > 0

\* C4 witness: a was woken by b's arrival and is superseded, and b has
\* invoked func.
C4_Witness ==
  \E a, b \in Calls :
    /\ b \in w_during[a]
    /\ w_out[a] = "superseded"
    /\ w_pc[b] = "running"

\* C5: when func's error ends a call (rejected by the predicate, or retries
\* exhausted), the error is raised to the caller, the lock is released and
\* passes to the first waiting call if there is one, and the node is removed
\* from the table exactly when no call waits for it.
C5_ErrorExit ==
  [][\A c \in Calls :
       (w_pc[c] = "running" /\ w_pc'[c] = "done" /\ w_out'[c] # "result") =>
         LET l == lk[w_lock[c]]
         IN  /\ w_out'[c] = "error"
             /\ lk'[w_lock[c]].holder # c
             /\ l.queue # <<>> =>
                   /\ lk'[w_lock[c]].holder = Head(l.queue)
                   /\ w_pc'[Head(l.queue)] = "acquired"
             /\ l.queue = <<>> => lk'[w_lock[c]].holder = 0
             /\ (locks'[w_node[c]] = NoLock) <=> (l.waiters = 0)
             /\ l.waiters # 0 => locks'[w_node[c]] = w_lock[c]]_vars

\* C5 witness: a call ended with func's error while another call for the node
\* was waiting, which now has the lock.
C5_Witness ==
  \E c, d \in Calls :
    /\ w_out[c] = "error"
    /\ c \in w_conc[d]
    /\ w_pc[d] = "acquired"
    /\ lk[w_lock[d]].holder = d
    /\ locks[w_node[d]] = w_lock[d]

\* ------------------------------------------------------------------------
\* _Retry.wrap (retrying.py): the blocking retry wrapper.  Times are in
\* hundredths of a second.

\* The default retryer "retry" and retryers customized by __call__.
RetryParams ==
  [base : {2}, multiplier : {20}, threshold : {50},
   max_retries : 0..MaxRetries, timeout : {0, 100}, randomize : BOOLEAN]
  \cup
  [base : {3}, multiplier : {10}, threshold : {200},
   max_retries : 0..MaxRetries, timeout : {0, 100}, randomize : BOOLEAN]

\* random.random() * 0.3 + 0.85, in hundredths.
RandomFactors == {85, 100, 114}

\* How long after __iter__ the first next() may read the clock.
IterDelays == {0, 120}

\* How long one invocation of func may take.
FuncDurations == {0, 60}

\* Invocations are cut off here when neither max_retries nor timeout ends
\* the retrying.
MaxInvocations == MaxRetries + 2

InitRetry ==
  /\ now = 0
  /\ r_par \in RetryParams
  /\ RetryIdle
  /\ w_par = [max_retries |-> 1, timeout |-> 0]
  /\ WatchIdle
  /\ ClusterUnused
  /\ RestIdle

RetryIterationInvokesTwice(s, r) ==
  LET nx == SeqNext(s, now', r)
  IN  /\ r_pc' = "calling"
      /\ r_out' = r_out
      /\ r_seq' = nx.seq
      /\ r_calls' = r_calls + 2
      /\ r_yielded' = Append(r_yielded, nx.seq.backoff)

\* "for backoff in backoff_sequence": next(), then func is invoked.  When
\* next() raises StopIteration the loop ends and wrapped returns None.
RetryIteration(s, r) ==
  LET nx == SeqNext(s, now', r)
  IN  IF nx.stop
      THEN /\ r_pc' = "done"
           /\ r_out' = "none_returned"
           /\ r_seq' = nx.seq
           /\ UNCHANGED <<r_calls, r_yielded>>
      ELSE /\ r_pc' = "calling"
           /\ r_out' = r_out
           /\ r_seq' = nx.seq
           /\ r_calls' = r_calls + 1
           /\ r_yielded' = Append(r_yielded, nx.seq.backoff)

\* wrapped(*args) up to the first invocation of func.  __iter__ reads the
\* clock, and d later the first next() reads it again.
BlockingCall(r, d) ==
  /\ r_pc = "idle"
  /\ now' = now + d
  /\ RetryIteration(
       Iter(BackoffSequence(r_par.base, r_par.multiplier, r_par.threshold,
                            r_par.max_retries, r_par.timeout,
                            r_par.randomize), now), r)
  /\ UNCHANGED <<r_par, r_sleeps, r_raised, r_last, r_all_accepted, r_cause,
                 r_logs>>

\* Why the "except" branch re-raises, or "retry" when it goes on to sleep.
GiveUpCauseIgnoringPredicate(s, t, res) ==
  IF ~HasNext(s, t).has_more
  THEN (IF RetriesExceeded(s) THEN "retries" ELSE "timeout")
  ELSE "retry"

GiveUpCause(s, t, res) ==
  IF ~HasNext(s, t).has_more
  THEN (IF RetriesExceeded(s) THEN "retries" ELSE "timeout")
  ELSE IF res # "accepted" THEN "rejected"
  ELSE "retry"

\* func returns after dt: its result is returned, or its exception is
\* re-raised or followed by time.sleep(backoff).
BlockingFuncDone(res, dt) ==
  /\ r_pc = "calling"
  /\ now' = Min(now + dt, MaxClock)
  /\ r_last' = res
  /\ r_all_accepted' = (r_all_accepted /\ res = "accepted")
  /\ IF res = "ok"
     THEN /\ r_pc' = "done"
          /\ r_out' = "result"
          /\ UNCHANGED <<r_seq, r_sleeps, r_raised, r_cause, r_logs>>
     ELSE LET cause == GiveUpCause(r_seq, now', res)
          IN  IF cause # "retry"
              THEN /\ r_pc' = "done"
                   /\ r_out' = "error"
                   /\ r_raised' = r_calls
                   /\ r_cause' = cause
                   /\ r_logs' = IF cause = "rejected" THEN r_logs
                                ELSE Append(r_logs, "error")
                   /\ r_seq' = HasNext(r_seq, now').seq
                   /\ UNCHANGED r_sleeps
              ELSE /\ r_pc' = "sleeping"
                   /\ r_seq' = HasNext(r_seq, now').seq
                   /\ r_sleeps' = Append(r_sleeps, r_seq.backoff)
                   /\ r_logs' = Append(r_logs, "warning")
                   /\ UNCHANGED <<r_out, r_raised, r_cause>>
  /\ UNCHANGED <<r_par, r_calls, r_yielded>>

\* time.sleep(backoff) returns, and the next iteration starts.
BlockingSleepDone(r) ==
  /\ r_pc = "sleeping"
  /\ r_calls < MaxInvocations
  /\ now' = Min(now + r_sleeps[Len(r_sleeps)], MaxClock)
  /\ RetryIteration(r_seq, r)
  /\ UNCHANGED <<r_par, r_sleeps, r_raised, r_last, r_all_accepted, r_cause,
                 r_logs>>

\* The steps of the blocking wrapper run on its own.
RetryCall(r, d) ==
  BlockingCall(r, d) /\ UNCHANGED <<watchVars, clusterVars, restVars>>

RetryFuncDone(res, dt) ==
  BlockingFuncDone(res, dt) /\ UNCHANGED <<watchVars, clusterVars, restVars>>

RetrySleepDone(r) ==
  BlockingSleepDone(r) /\ UNCHANGED <<watchVars, clusterVars, restVars>>

NextRetry ==
  \/ \E r \in RandomFactors, d \in IterDelays : RetryCall(r, d)
  \/ \E res \in {"ok", "accepted", "rejected"}, dt \in FuncDurations :
       RetryFuncDone(res, dt)
  \/ \E r \in RandomFactors : RetrySleepDone(r)

SpecRetry == InitRetry /\ [][NextRetry]_vars

\* ------------------------------------------------------------------------
\* Properties of the retry wrapper.

\* C10: with max_retries = N >= 1, no timeout expiry and a func that always
\* raises an accepted error, func is invoked exactly N + 1 times, time.sleep
\* is called exactly N times, the k-th time with the k-th value of the
\* backoff sequence, and the error of the last invocation is surfaced.
\* The timeout expires at has_next() (r_cause) or at the first next().
C10_ExhaustsAfterMaxRetries ==
  (/\ r_pc = "done"
   /\ r_par.max_retries >= 1
   /\ r_all_accepted
   /\ r_cause # "timeout"
   /\ r_out # "none_returned") =>
     /\ r_calls = r_par.max_retries + 1
     /\ Len(r_sleeps) = r_par.max_retries
     /\ \A k \in 1..Len(r_sleeps) : r_sleeps[k] = r_yielded[k]
     /\ r_out = "error"
     /\ r_raised = r_calls

\* C10 witness: a retryer with max_retries = 2 and a timeout gave up after
\* three invocations that all raised accepted errors, by the attempt count.
C10_Witness ==
  /\ r_pc = "done"
  /\ r_par.max_retries = 2
  /\ r_par.timeout # 0
  /\ r_all_accepted
  /\ r_cause = "retries"
  /\ r_calls = 3
  /\ r_sleeps = <<10, 30>>

\* ------------------------------------------------------------------------
\* ResourceHandler.list_cluster (resource_handlers.py): the fan-out.

\* What awaiting _get_from_node ends with: a result (entities_json,
\* failures), a HermesError (its entry is the one element of failures), or
\* another exception.
Outcome(kind, entities_json, fails) ==
  [kind |-> kind, entities_json |-> entities_json, failures |-> fails]

HermesError(host, message) ==
  Outcome("hermes_error", <<>>, <<[host |-> host, message |-> message]>>)

\* json.loads of a failures part that holds failures of list_local.
LoadsFailures(items) ==
  [i \in 1..Len(items) |->
     [host |-> Location(CHOOSE h \in {private_ip} \cup RemoteHosts :
                          FailureJson[h] = items[i], NoPort),
      message |-> "m"]]

UrlWithoutDefault(hermes_location) ==
  [host |-> hermes_location.host, port |-> hermes_location.port]

\* The host and port of the url that _fetch_remote requests.
Url(hermes_location) ==
  [host |-> hermes_location.host,
   port |-> IF hermes_location.port # NoPort
            THEN hermes_location.port ELSE HERMES_PORT]

FetchRemote(hermes_location) ==
  LET host == Url(hermes_location).host
      port == Url(hermes_location).port
      resp == IF port = HERMES_PORT THEN peer[host]
              ELSE Answer("refused", 0, <<>>)
      parts == Split(resp.body, BODY_CONNECTOR)
  IN  CASE resp.kind = "refused" ->
             HermesError(Location(host, NoPort), "Cannot connect to host")
        [] resp.kind = "timeout" -> Outcome("TimeoutError", <<>>, <<>>)
        [] resp.kind = "response" /\ resp.status >= 400 ->
             HermesError(Location(host, NoPort), "HTTP 500")
        [] OTHER ->
             IF Len(parts) # 2 THEN Outcome("ValueError", <<>>, <<>>)
             ELSE IF ~Loads(parts[2]).ok
             THEN Outcome("ValueError", <<>>, <<>>)
             ELSE Outcome("result", parts[1],
                          LoadsFailures(Loads(parts[2]).items))

\* hermes_location.split(':')[0] == self.private_ip
IsLocal(hermes_location) == hermes_location.host = private_ip

GetFromNode(hermes_location) ==
  IF IsLocal(hermes_location)
  THEN LET res == CallLocalSource(local_src, private_ip)
       IN  IF res.raises
           THEN HermesError(hermes_location, "local source failed")
           ELSE Outcome("result", Dumps(res.entities), res.failures)
  ELSE FetchRemote(hermes_location)

StartFanoutPermitPerTask(r, locations) ==
  /\ max_concurrency' = max_concurrency - Len(locations)
  /\ q_pc' = [q_pc EXCEPT ![r] = "fanout"]
  /\ hermes_locations' = [hermes_locations EXCEPT ![r] = locations]
  /\ q_pending' = [q_pending EXCEPT ![r] =
       [l \in Locations |->
          Cardinality({i \in 1..Len(locations) : locations[i] = l})]]

\* "async with max_concurrency" is entered and gather starts one
\* process_node_result task per location.
StartFanout(r, locations) ==
  /\ max_concurrency' = max_concurrency - 1
  /\ q_pc' = [q_pc EXCEPT ![r] = "fanout"]
  /\ hermes_locations' = [hermes_locations EXCEPT ![r] = locations]
  /\ q_pending' = [q_pending EXCEPT ![r] =
       [l \in Locations |->
          Cardinality({i \in 1..Len(locations) : locations[i] = l})]]

\* list_cluster is called for a request: 400 for a body without locations;
\* with locations in the body it goes on once the body is read and a permit
\* is free, without a body as soon as a permit is free.
ClusterRequest(r, body) ==
  /\ q_pc[r] = "idle"
  /\ IF r = 1 THEN TRUE ELSE q_pc[r - 1] # "idle"
  /\ body \in bodies
  /\ q_log' = [q_log EXCEPT ![r].body = <<body>>]
  /\ IF body.has_body /\ ~body.valid
     THEN /\ q_pc' = [q_pc EXCEPT ![r] = "done"]
          /\ q_status' = [q_status EXCEPT ![r] = 400]
          /\ UNCHANGED <<max_concurrency, hermes_locations, q_pending>>
     ELSE IF body.has_body \/ max_concurrency = 0
     THEN /\ q_pc' = [q_pc EXCEPT ![r] = "acquiring"]
          /\ hermes_locations' =
               [hermes_locations EXCEPT ![r] =
                  IF body.has_body THEN body.locations ELSE DefaultIps]
          /\ UNCHANGED <<max_concurrency, q_pending, q_status>>
     ELSE /\ StartFanout(r, DefaultIps)
          /\ UNCHANGED q_status
  /\ UNCHANGED <<now, watchVars, retryVars, restVars, peer, local_src, bodies, q_raised,
                 entities_json_list, failures, joined_entities_json, q_failed,
                 q_ok>>

\* The request gets its permit.
Acquire(r) ==
  /\ q_pc[r] = "acquiring"
  /\ max_concurrency > 0
  /\ StartFanout(r, hermes_locations[r])
  /\ UNCHANGED <<now, watchVars, retryVars, restVars, peer, local_src, bodies, q_raised,
                 entities_json_list, failures, q_status, joined_entities_json,
                 q_failed, q_ok, q_log>>

\* One process_node_result task ends.  gather passes the first exception of
\* a task on to _list_resource, after which the lists are no longer read;
\* the other tasks keep running.
TaskDone(r, hermes_location) ==
  /\ q_pending[r][hermes_location] > 0
  /\ q_pending' = [q_pending EXCEPT ![r][hermes_location] = @ - 1]
  /\ q_log' = IF IsLocal(hermes_location)
              THEN [q_log EXCEPT ![r].local = @ + 1]
              ELSE [q_log EXCEPT ![r].gets = Append(@, Url(hermes_location))]
  /\ LET res == GetFromNode(hermes_location)
     IN  IF q_pc[r] # "fanout" \/ q_raised[r]
         THEN UNCHANGED <<q_raised, entities_json_list, failures, q_failed,
                          q_ok>>
         ELSE IF res.kind = "result"
         THEN /\ entities_json_list' =
                   [entities_json_list EXCEPT ![r] =
                      IF Len(res.entities_json) > 0
                      THEN Append(@, res.entities_json) ELSE @]
              /\ failures' = [failures EXCEPT ![r] = @ \o res.failures]
              /\ q_ok' = [q_ok EXCEPT ![r] =
                   Append(@, [entities |-> Loads(res.entities_json).items,
                              own |-> Len(res.failures)])]
              /\ UNCHANGED <<q_raised, q_failed>>
         ELSE IF res.kind = "hermes_error"
         THEN /\ failures' = [failures EXCEPT ![r] = @ \o res.failures]
              /\ q_failed' = [q_failed EXCEPT ![r] =
                                Append(@, hermes_location)]
              /\ UNCHANGED <<q_raised, entities_json_list, q_ok>>
         ELSE /\ q_raised' = [q_raised EXCEPT ![r] = TRUE]
              /\ q_failed' = [q_failed EXCEPT ![r] =
                                Append(@, hermes_location)]
              /\ UNCHANGED <<entities_json_list, failures, q_ok>>
  /\ UNCHANGED <<now, watchVars, retryVars, restVars, peer, local_src, bodies,
                 max_concurrency, q_pc, hermes_locations, q_status,
                 joined_entities_json>>

\* b'[%b]' % b',\n\n'.join(raw_bytes.strip(b'[] ') for raw_bytes in ...)
JoinEntities(json_list) ==
  <<"[">> \o Join([i \in 1..Len(json_list) |->
                     Strip(json_list[i], {"[", "]", " "})],
                  <<",", "\n", "\n">>)
          \o <<"]">>

\* gather is over: the permit is returned, and the request is answered with
\* the joined lists, or with 500 when gather raised.
Respond(r) ==
  /\ q_pc[r] = "fanout"
  /\ IF q_raised[r] THEN TRUE ELSE \A l \in Locations : q_pending[r][l] = 0
  /\ max_concurrency' = max_concurrency + 1
  /\ q_pc' = [q_pc EXCEPT ![r] = "done"]
  /\ IF q_raised[r]
     THEN /\ q_status' = [q_status EXCEPT ![r] = 500]
          /\ UNCHANGED joined_entities_json
     ELSE /\ q_status' = [q_status EXCEPT ![r] = 200]
          /\ joined_entities_json' =
               [joined_entities_json EXCEPT ![r] =
                  JoinEntities(entities_json_list[r])]
  /\ UNCHANGED <<now, watchVars, retryVars, restVars, peer, local_src, bodies,
                 hermes_locations, q_pending, q_raised, entities_json_list,
                 failures, q_failed, q_ok, q_log>>

NextCluster ==
  \/ \E r \in Reqs, body \in ClusterBodies \cup {BulkBody} :
       ClusterRequest(r, body)
  \/ \E r \in Reqs : Acquire(r)
  \/ \E r \in Reqs, l \in Locations : TaskDone(r, l)
  \/ \E r \in Reqs : Respond(r)

\* The nodes a cluster request may meet.
InitCluster ==
  /\ now = 0
  /\ w_par = [max_retries |-> 1, timeout |-> 0]
  /\ WatchIdle
  /\ r_par = DefaultRetryParams
  /\ RetryIdle
  /\ peer \in [RemoteHosts -> UNION {Answers(h) : h \in RemoteHosts}]
  /\ peer["10.0.2.16"] \in Answers("10.0.2.16")
  /\ peer["10.0.2.17"] \in
       {ListLocal(src, "10.0.2.17", TRUE) :
          src \in [raises : {FALSE}, entities : {<<>>, <<"{\"pid\": 1}">>},
                   failures : {<<>>}]}
       \cup {Answer("refused", 0, <<>>)}
  /\ peer[BulkHost] = Answer("refused", 0, <<>>)
  /\ peer[CharHost] = Answer("refused", 0, <<>>)
  /\ local_src \in {src \in Sources : Len(src.entities) < 2}
  /\ bodies = ClusterBodies
  /\ ClusterIdle
  /\ RestIdle

SpecCluster == InitCluster /\ [][NextCluster]_vars

\* One request lists more remote locations than there are permits.
InitBulk ==
  /\ now = 0
  /\ w_par = [max_retries |-> 1, timeout |-> 0]
  /\ WatchIdle
  /\ r_par = DefaultRetryParams
  /\ RetryIdle
  /\ peer = [h \in RemoteHosts |->
               ListLocal([raises |-> FALSE, entities |-> <<"{\"pid\": 1}">>,
                          failures |-> <<>>], h, TRUE)]
  /\ local_src = [raises |-> FALSE, entities |-> <<>>, failures |-> <<>>]
  /\ bodies = {BulkBody}
  /\ ClusterIdle
  /\ RestIdle

SpecBulk == InitBulk /\ [][NextCluster]_vars

\* The requests over nodes of which one remote answers, refuses or is late
\* and the local source answers or raises.
InitFanout ==
  /\ now = 0
  /\ w_par = [max_retries |-> 1, timeout |-> 0]
  /\ WatchIdle
  /\ r_par = DefaultRetryParams
  /\ RetryIdle
  /\ \E answer \in {ListLocal([raises |-> FALSE,
                                entities |-> <<"{\"pid\": 1}">>,
                                failures |-> <<>>], "10.0.2.16", TRUE),
                      Answer("refused", 0, <<>>),
                      Answer("timeout", 0, <<>>)} :
       peer = [h \in RemoteHosts |->
                 IF h = "10.0.2.16" THEN answer
                 ELSE IF h = "10.0.2.17"
                 THEN ListLocal([raises |-> FALSE, entities |-> <<>>,
                                 failures |-> <<>>], h, TRUE)
                 ELSE Answer("refused", 0, <<>>)]
  /\ local_src \in {src \in Sources :
                      src.entities = <<>> /\ src.failures = <<>>}
  /\ bodies = ClusterBodies
  /\ ClusterIdle
  /\ RestIdle

SpecFanout == InitFanout /\ [][NextCluster]_vars

\* The event loop does not stop while a task can run: a request that can
\* take a permit is resumed.
FairFanout == SpecFanout /\ WF_vars(\E r \in Reqs : Acquire(r))

\* Peer requests in flight: the process_node_result tasks running for a
\* remote location.
RECURSIVE Sum(_, _)
Sum(f, S) ==
  IF S = {} THEN 0
  ELSE LET x == CHOOSE y \in S : TRUE IN f[x] + Sum(f, S \ {x})

InFlight ==
  Sum([p \in Reqs \X Locations |->
         IF p[2].host = private_ip THEN 0 ELSE q_pending[p[1]][p[2]]],
      Reqs \X Locations)

\* ------------------------------------------------------------------------
\* Properties of the fan-out.

\* The requests that were answered by the fan-out (not with 400).
Answered(r) == q_status[r] \notin {0, 400}

\* The concatenation of the entity lists in q_ok[r].
RECURSIVE Held(_)
Held(oks) ==
  IF Len(oks) = 0 THEN <<>>
  ELSE IF Len(oks) = 1 THEN oks[1].entities
  ELSE LET m == Len(oks) \div 2
       IN  Held(SubSeq(oks, 1, m)) \o Held(SubSeq(oks, m + 1, Len(oks)))

\* C6: at any time, over all cluster requests being served, at most 100 peer
\* requests are in flight.
C6_AtMostMaxConcurrencyInFlight == InFlight <= MaxConcurrency

\* C7: when K of the N locations of a cluster request fail and the others
\* report no failures of their own, the response holds exactly K failure
\* entries, one per failing location, each with that location's host.
C7_OneEntryPerFailedPeer ==
  \A r \in Reqs :
    (Answered(r) /\ \A i \in 1..Len(q_ok[r]) : q_ok[r][i].own = 0) =>
      /\ q_status[r] = 200
      /\ Len(failures[r]) = Len(q_failed[r])
      /\ \A i \in 1..Len(q_failed[r]) :
           failures[r][i].host.host = q_failed[r][i].host

\* C8: whatever way a peer fails (unreachable, timed out, error status,
\* malformed body), the cluster request is answered with 200, holds a failure
\* entry for that peer and the entities of all the other peers.
C8_PeerFailureNeverFatal ==
  \A r \in Reqs :
    Answered(r) =>
      /\ q_status[r] = 200
      /\ \A i \in 1..Len(q_failed[r]) :
           \E k \in 1..Len(failures[r]) :
             failures[r][k].host.host = q_failed[r][i].host
      /\ \A i \in 1..Len(q_ok[r]) :
           \A e \in 1..Len(q_ok[r][i].entities) :
             \E k \in 1..Len(joined_entities_json[r]) :
               joined_entities_json[r][k] = q_ok[r][i].entities[e]

\* C9: the "entities" of a cluster response are a well-formed JSON array
\* whose elements are the entities the peers hold, whatever the length of
\* each peer's list.
C9_JoinedEntitiesWellFormed ==
  \A r \in Reqs :
    q_status[r] = 200 =>
      /\ Loads(joined_entities_json[r]).ok
      /\ Loads(joined_entities_json[r]).items = Held(q_ok[r])

\* ------------------------------------------------------------------------
\* More properties of the retry wrapper.

\* C11: an error that the predicate rejects is surfaced at once: the wrapper
\* ends with that invocation's error, having slept only before it, whatever
\* retries remain.
C11_RejectedSurfacesAtOnce ==
  r_last = "rejected" =>
    /\ r_pc = "done"
    /\ r_out = "error"
    /\ r_raised = r_calls
    /\ Len(r_sleeps) = r_calls - 1

\* C11 witness: the second of up to four invocations raised a rejected error
\* and the wrapper ended with it.
C11_Witness ==
  /\ r_last = "rejected"
  /\ r_cause = "rejected"
  /\ r_par.max_retries = 3
  /\ r_par.timeout = 0
  /\ r_calls = 2
  /\ r_out = "error"

\* C12: when the k-th invocation is the first to succeed, its result is
\* returned after exactly k invocations and k - 1 sleeps (each of the delay
\* the sequence gave), with one warning logged per sleep; so for k = 1 nothing
\* is slept and nothing is logged.
C12_ResultAfterKInvocations ==
  r_last = "ok" =>
    /\ r_pc = "done"
    /\ r_out = "result"
    /\ Len(r_sleeps) = r_calls - 1
    /\ \A k \in 1..Len(r_sleeps) : r_sleeps[k] = r_yielded[k]
    /\ r_logs = [k \in 1..(r_calls - 1) |-> "warning"]

\* C12 witness: with max_retries = 2 and a timeout, the third invocation
\* succeeded.
C12_Witness ==
  /\ r_last = "ok"
  /\ r_par.max_retries = 2
  /\ r_par.timeout # 0
  /\ r_calls = 3
  /\ r_out = "result"

\* C13: after a failed invocation with an accepted error and retries left,
\* the wrapper gives up (the error is surfaced, nothing is slept, func is not
\* invoked again) when the time since the first attempt plus the delay it
\* would sleep exceeds the timeout, and sleeps that delay otherwise.
C13_TimeoutCountsTheDelay ==
  [][(/\ r_pc = "calling"
      /\ r_pc' # "calling"
      /\ r_last' = "accepted"
      /\ r_par.timeout # 0
      /\ (r_par.max_retries = 0 \/ r_calls <= r_par.max_retries)) =>
        IF (now' - r_seq.start_time) + r_yielded[Len(r_yielded)]
             > r_par.timeout
        THEN /\ r_pc' = "done"
             /\ r_out' = "error"
             /\ r_raised' = r_calls
             /\ r_sleeps' = r_sleeps
             /\ r_calls' = r_calls
        ELSE /\ r_pc' = "sleeping"
             /\ r_sleeps' = Append(r_sleeps, r_yielded[Len(r_yielded)])]_vars

\* C13 witness: the wrapper retried once within the timeout and then gave
\* up by the timeout with retries left.
C13_Witness ==
  /\ r_pc = "done"
  /\ r_cause = "timeout"
  /\ r_all_accepted
  /\ r_calls = 2
  /\ r_par.max_retries = 3
  /\ now - r_seq.start_time <= r_par.timeout

\* ------------------------------------------------------------------------
\* _Retry.__call__ (retrying.py): customizing a retryer.

\* not_missed(argument, self.<name>)
NotMissed(name, args, self) ==
  IF name \in args.given THEN args.vals[name] ELSE self[name]

\* The parameters __call__ looks at to tell whether any is custom.
LookedAt ==
  {"backoff_base", "backoff_multiplier", "backoff_threshold", "max_retries",
   "retrying_timeout", "retry_on_exception"}

\* __call__: a retryer with custom parameters, or a function wrapped by it,
\* when a parameter it looks at is not MISSED; otherwise self.wrap(func).
RetryerCall(self, args) ==
  IF args.given \cap LookedAt # {}
  THEN LET custom_retry == [n \in ParamNames |-> NotMissed(n, args, self)]
       IN  IF args.func = "None"
           THEN CallResult("retryer", custom_retry, "None")
           ELSE CallResult("wrapped", custom_retry, args.func)
  ELSE CallResult("wrapped", self, args.func)

\* The values a call may supply: each differs from both retryers' own.
CustomValues == Retryer(3, 10, 200, 2, 100, TRUE, "IOError")

\* retryer(func, **custom) is evaluated.
Customize(func, given) ==
  /\ c_result.kind = "none"
  /\ c_args' = CallArgs(func, given, CustomValues)
  /\ c_result' = RetryerCall(c_self, c_args')
  /\ c_self' = c_self
  /\ UNCHANGED <<now, watchVars, retryVars, clusterVars, co, bs, procVars>>

NextCall ==
  \E func \in {"None", "f"}, given \in SUBSET ParamNames :
    Customize(func, given)

\* The default retryer, or one that was customized before.
InitCall ==
  /\ now = 0
  /\ w_par = [max_retries |-> 1, timeout |-> 0]
  /\ WatchIdle
  /\ r_par = DefaultRetryParams
  /\ RetryIdle
  /\ ClusterUnused
  /\ c_self \in {DefaultRetryer, Retryer(2, 20, 50, 4, 0, FALSE, "Exception")}
  /\ c_args = NoCall
  /\ c_result = CallResult("none", DefaultRetryer, "None")
  /\ co = CoIdle
  /\ bs = BsIdle
  /\ ProcIdle

SpecCall == InitCall /\ [][NextCall]_vars

\* C14: calling a retryer with a non-empty set of custom parameters gives a
\* new retryer (or, with func, a function wrapped by it) whose parameters are
\* the supplied values, the others inherited; the called retryer keeps its
\* parameters.
C14_CustomParametersApplied ==
  (c_result.kind # "none" /\ c_args.given # {}) =>
     /\ c_args.func = "None" => c_result.kind = "retryer"
     /\ \A n \in ParamNames :
          c_result.params[n] =
            IF n \in c_args.given THEN c_args.vals[n] ELSE c_self[n]

\* ------------------------------------------------------------------------
\* _RetryCoroutine.wrap (async_retrying.py): the coroutine retry wrapper,
\* run beside the blocking one on the same parameters, the same outcomes and
\* durations of func and the same random draws.

\* "for backoff in backoff_sequence": next(), then the coroutine is called.
\* When next() raises StopIteration the loop ends and "raise
\* gen.Return(result)" finds result unbound.
CoIteration(c, t, r) ==
  LET nx == SeqNext(c.seq, t, r)
  IN  IF nx.stop
      THEN [c EXCEPT !.pc = "done", !.out = "unbound_result", !.seq = nx.seq]
      ELSE [c EXCEPT !.pc = "calling", !.seq = nx.seq, !.calls = @ + 1]

\* wrapped(*args) up to the first call of the coroutine: __iter__ at time
\* t0, the first next() at time t.
CoCall(c, par, t0, t, r) ==
  CoIteration(
    [c EXCEPT !.seq = Iter(BackoffSequence(par.base, par.multiplier,
                                           par.threshold, par.max_retries,
                                           par.timeout, par.randomize), t0)],
    t, r)

\* The coroutine ends at time t: "break" and the result is returned, or the
\* except branch re-raises or goes on to gen.sleep(backoff).
CoFuncDone(c, res, t) ==
  IF res = "ok" THEN [c EXCEPT !.pc = "done", !.out = "result"]
  ELSE IF ~HasNext(c.seq, t).has_more
  THEN [c EXCEPT !.pc = "done", !.out = "error", !.raised = c.calls,
                 !.logs = Append(@, "error")]
  ELSE IF res # "accepted"
  THEN [c EXCEPT !.pc = "done", !.out = "error", !.raised = c.calls,
                 !.seq = HasNext(c.seq, t).seq]
  ELSE [c EXCEPT !.pc = "sleeping", !.seq = HasNext(c.seq, t).seq,
                 !.sleeps = Append(@, c.seq.backoff),
                 !.logs = Append(@, "warning")]

\* Both wrappers are called.
PairCall(r, d) ==
  /\ co.pc = "idle"
  /\ BlockingCall(r, d)
  /\ co' = CoCall(co, r_par, now, now', r)
  /\ UNCHANGED <<watchVars, clusterVars, callVars, bs, procVars>>

\* func ends in both runs, the same way and after the same time.
PairFuncDone(res, dt) ==
  /\ co.pc = "calling"
  /\ BlockingFuncDone(res, dt)
  /\ co' = CoFuncDone(co, res, now')
  /\ UNCHANGED <<watchVars, clusterVars, callVars, bs, procVars>>

\* time.sleep(backoff) and gen.sleep(backoff) are over.
PairSleepDone(r) ==
  /\ co.pc = "sleeping"
  /\ BlockingSleepDone(r)
  /\ co' = CoIteration(co, now', r)
  /\ UNCHANGED <<watchVars, clusterVars, callVars, bs, procVars>>

NextPair ==
  \/ \E r \in RandomFactors, d \in IterDelays : PairCall(r, d)
  \/ \E res \in {"ok", "accepted", "rejected"}, dt \in FuncDurations :
       PairFuncDone(res, dt)
  \/ \E r \in RandomFactors : PairSleepDone(r)

SpecPair == InitRetry /\ [][NextPair]_vars

\* C15: on the same parameters, predicate and outcomes of func, the blocking
\* and the coroutine wrapper make the same invocations and the same sleeps
\* and end the same way, with the same result or the same error.
C15_WrappersAgree ==
  /\ co.pc = r_pc
  /\ co.calls = r_calls
  /\ co.sleeps = r_sleeps
  /\ co.out = r_out
  /\ co.raised = r_raised
  /\ co.logs = r_logs

\* ------------------------------------------------------------------------
\* BackoffSequence (retrying.py) called directly: __iter__, next() and
\* has_next() in any order after the first __iter__, the clock moving in
\* between.  A timeout or max_retries of 0 stands for every falsy value
\* (0, None): the limit is not applied.

MaxIters == 2

\* The clock of a directly used sequence stops here, past every timeout.
MaxBackoffClock == 120

\* How far the clock moves between two calls.
ClockSteps == {60}

UsedNever(s) == FALSE

\* __iter__, the test for an earlier use.
Used(s) == s.attempt_num > 0

\* iter(sequence): WrongUsage, or the start time is taken and self returned.
UseIter ==
  /\ bs.iters < MaxIters
  /\ bs' = IF Used(bs.seq)
           THEN [bs EXCEPT !.op = "iter", !.result = "WrongUsage",
                           !.at = now, !.was_told = bs.told]
           ELSE [bs EXCEPT !.seq = Iter(bs.seq, now), !.iters = @ + 1,
                           !.op = "iter", !.result = "self",
                           !.at = now, !.was_told = bs.told]
  /\ UNCHANGED <<now, watchVars, retryVars, clusterVars, callVars, co,
                 procVars>>

\* sequence.next(): StopIteration or a delay.
UseNext(r) ==
  /\ bs.iters >= 1
  /\ Len(bs.delays) < MaxInvocations
  /\ LET nx == SeqNext(bs.seq, now, r)
     IN  bs' = IF nx.stop
               THEN [bs EXCEPT !.op = "next", !.result = "StopIteration",
                               !.at = now, !.was_told = bs.told,
                               !.told = FALSE]
               ELSE [bs EXCEPT !.seq = nx.seq,
                               !.delays = Append(@, nx.seq.backoff),
                               !.op = "next", !.result = "delay",
                               !.at = now, !.was_told = bs.told,
                               !.told = FALSE]
  /\ UNCHANGED <<now, watchVars, retryVars, clusterVars, callVars, co,
                 procVars>>

\* sequence.has_next(): True or False.
UseHasNext ==
  /\ bs.iters >= 1
  /\ LET h == HasNext(bs.seq, now)
     IN  bs' = [bs EXCEPT !.seq = h.seq, !.op = "has_next",
                          !.result = IF h.has_more THEN "True" ELSE "False",
                          !.at = now, !.was_told = bs.told,
                          !.told = IF h.has_more THEN TRUE ELSE @]
  /\ UNCHANGED <<now, watchVars, retryVars, clusterVars, callVars, co,
                 procVars>>

\* Time passes between two calls.
BackoffTick(dt) ==
  /\ now + dt <= MaxBackoffClock
  /\ now' = now + dt
  /\ UNCHANGED <<watchVars, retryVars, clusterVars, restVars>>

NextBackoff ==
  \/ UseIter
  \/ \E r \in RandomFactors : UseNext(r)
  \/ UseHasNext
  \/ \E dt \in ClockSteps : BackoffTick(dt)

\* BackoffSequence(...) has just been constructed.
InitBackoff ==
  /\ now = 0
  /\ \E p \in RetryParams :
       bs = [BsIdle EXCEPT
               !.seq = BackoffSequence(p.base, p.multiplier, p.threshold,
                                       p.max_retries, p.timeout, p.randomize),
               !.multiplier = p.multiplier]
  /\ w_par = [max_retries |-> 1, timeout |-> 0]
  /\ WatchIdle
  /\ r_par = DefaultRetryParams
  /\ RetryIdle
  /\ ClusterUnused
  /\ CallIdle
  /\ co = CoIdle
  /\ ProcIdle

SpecBackoff == InitBackoff /\ [][NextBackoff]_vars

RECURSIVE Pow(_, _)
\* base ** k, as k multiplications by base.
Pow(base, k) == IF k = 0 THEN 1 ELSE base * Pow(base, k - 1)

\* next() answered StopIteration because of the attempt count.
StoppedByRetries ==
  /\ bs.op = "next"
  /\ bs.result = "StopIteration"
  /\ RetriesExceeded(bs.seq)

\* The delays of a sequence that is not randomized: at most n + 1 of them,
\* exactly n + 1 when the attempt count ended it, the k-th (from 0) being
\* min(multiplier * base^k, threshold).
DelaysAsComputed(n) ==
  /\ Len(bs.delays) <= n + 1
  /\ StoppedByRetries => Len(bs.delays) = n + 1
  /\ \A k \in 1..Len(bs.delays) :
       bs.delays[k] = Min(bs.multiplier * Pow(bs.seq.base, k - 1),
                          bs.seq.threshold)
  /\ \A k \in 1..(Len(bs.delays) - 1) : bs.delays[k] <= bs.delays[k + 1]
  /\ \A k \in 1..Len(bs.delays) : bs.delays[k] <= bs.seq.threshold

\* C16 as stated: with randomize off and no timeout expiry a sequence with
\* max_retries = N yields exactly N + 1 delays, the k-th (from 0) being
\* min(multiplier * base^k, threshold), so never decreasing and never above
\* threshold.
C16_DelaysForAnyMaxRetries ==
  ~bs.seq.randomize => DelaysAsComputed(bs.seq.max_retries)

\* C16 amended: the same for max_retries = N >= 1; with max_retries = 0 the
\* attempt count is not tested and the sequence goes on.
C16_DelaysForPositiveMaxRetries ==
  (~bs.seq.randomize /\ bs.seq.max_retries >= 1) =>
    DelaysAsComputed(bs.seq.max_retries)

\* C16 witness: max_retries = 3, threshold 50: the four delays 20, 40, 50, 50
\* and then StopIteration by the attempt count.
C16_Witness ==
  /\ ~bs.seq.randomize
  /\ bs.seq.max_retries = 3
  /\ bs.delays = <<20, 40, 50, 50>>
  /\ StoppedByRetries

\* C17 as stated: a second __iter__ of the same sequence raises WrongUsage,
\* so __iter__ never returns the sequence twice.
C17_SecondIterRaises ==
  (bs.op = "iter" /\ bs.result = "self") => bs.iters = 1

\* C17 amended: __iter__ raises WrongUsage exactly when next() has already
\* returned a delay; until then it returns the sequence again.
C17_IterRaisesAfterFirstDelay ==
  bs.op = "iter" => (bs.result = "WrongUsage" <=> Len(bs.delays) > 0)

\* C17 witness: after one __iter__ and two delays a second __iter__ raised
\* WrongUsage.
C17_Witness ==
  /\ bs.op = "iter"
  /\ bs.result = "WrongUsage"
  /\ bs.iters = 1
  /\ Len(bs.delays) = 2

\* has_next() at time t answers False for the sequence s: the two tests of
\* C18, the attempt count above max_retries and the timeout over after the
\* current delay.
Exhausted(s, t, n_from) ==
  \/ s.max_retries >= n_from /\ s.attempt_num > s.max_retries
  \/ s.timeout # 0 /\ (t + s.backoff) - s.start_time > s.timeout

\* The promise of C18: a next() that follows a has_next() answering True
\* returns a delay.
PromiseKept ==
  (bs.op = "next" /\ bs.was_told) => bs.result = "delay"

\* C18 as stated: the promise is kept, and has_next() answers False once the
\* attempt count exceeds max_retries or the timeout would be exceeded after
\* the current delay.
C18_HasNextForAnyMaxRetries ==
  /\ PromiseKept
  /\ (bs.op = "has_next" /\ Exhausted(bs.seq, bs.at, 0)) => bs.result = "False"

\* C18 amended: the promise is kept, and has_next() answers False exactly
\* when max_retries >= 1 and the attempt count exceeds it or a timeout is set
\* and would be exceeded after the current delay.
C18_HasNextForPositiveMaxRetries ==
  /\ PromiseKept
  /\ bs.op = "has_next" =>
       (bs.result = "False" <=> Exhausted(bs.seq, bs.at, 1))

\* C18 witness: has_next() answered True, the timeout elapsed, and next()
\* still returned a delay.
C18_Witness ==
  /\ bs.op = "next"
  /\ bs.was_told
  /\ bs.result = "delay"
  /\ bs.seq.timeout # 0
  /\ bs.at - bs.seq.start_time > bs.seq.timeout

\* ------------------------------------------------------------------------
\* list_processes (process.py): the process sampler.  An execution takes its
\* start time, awaits get_known_processes(), and then, without another
\* await, samples every process, computes the *_1h_diff fields against
\* Process.PREVIOUS_STATE and replaces it.  An absent value (None) is the
\* empty sequence, a present one a sequence of one number.  cpu_user stands
\* for the counters read from every process (cpu_system and the context
\* switches are computed the same way), disk_io_read_count for the four IO
\* counters.

MaxScrapeClock == 60

\* psutil's processes: pid -> create_time in milliseconds.
CreateMs == (100 :> 1500) @@ (50 :> 900) @@ (1 :> 100)

LongPidWithoutCreateTime(host, pid, create_ms) == <<host, "_", pid>>

\* '{}_{}_{}'.format(host, process.pid, int(process.create_time() * 1000)):
\* a str is the sequence of its parts.
LongPid(host, pid, create_ms) == <<host, "_", pid, "_", create_ms>>

\* What psutil gives for one process: name, ppid, cpu_times (its user time)
\* or None, and io_counters (its read count) or None.  Process 50 is the
\* parent of 100, process 1 the root; both stay as they are, but 50 may have
\* been re-parented to 100 by the time it is read.
RawInfos(pid) ==
  IF pid = 100
  THEN {[name |-> "a", ppid |-> 50, cpu_times |-> c[1],
         io_read_count |-> c[2]] :
          c \in {<< <<>>, <<>> >>, << <<10>>, <<>> >>, << <<10>>, <<4>> >>,
                 << <<16>>, <<7>> >>}}
  ELSE IF pid = 50
  THEN [name : {"b"}, ppid : {1, 100}, cpu_times : {<<10>>},
        io_read_count : {<<>>}]
  ELSE [name : {"systemd"}, ppid : {0}, cpu_times : {<<10>>},
        io_read_count : {<<>>}]

\* What process_iter may give: the processes 1 and 50, with or without
\* process 100, each with its info.
ProcessTables ==
  UNION {{t \in [S -> UNION {RawInfos(pid) : pid \in S}] :
            \A pid \in S : t[pid] \in RawInfos(pid)} :
         S \in {T \in SUBSET DOMAIN CreateMs : {1, 50} \subseteq T}}

\* What get_known_processes() may answer: the tags of the appscale
\* processes by pid, or nothing.
KnownProcesses ==
  LET tags == (100 :> <<"appscale", "a">>) @@ (50 :> <<"appscale", "b">>)
  IN  {[pid \in S |-> tags[pid]] : S \in {{}, DOMAIN tags}}

OwnTagsByName(pid, name, known_processes) == <<name>>

\* known_processes.get(psutil_process.pid, [process.name])
OwnTags(pid, name, known_processes) ==
  IF pid \in DOMAIN known_processes THEN known_processes[pid] ELSE <<name>>

\* init_process_info: the sample before its diffs, tags of ancestors,
\* long_pid and timestamp are set.  Called only with cpu_times given.
InitProcessInfo(pid, info, known_processes) ==
  LET own_tags == OwnTags(pid, info.name, known_processes)
  IN  [pid |-> pid, ppid |-> info.ppid, name |-> info.name,
       own_tags |-> own_tags, all_tags |-> own_tags,
       cpu_user |-> info.cpu_times[1],
       disk_io_read_count |-> info.io_read_count,
       cpu_user_1h_diff |-> <<>>, disk_io_read_count_1h_diff |-> <<>>,
       long_pid |-> <<>>, utc_timestamp |-> <<>>]

\* pid_to_process: long_pid -> sample, for the processes of the table.
PidToProcess(table, known_processes) ==
  LET keys == {LongPid(private_ip, pid, CreateMs[pid]) : pid \in DOMAIN table}
  IN  [k \in keys |-> InitProcessInfo(k[3], table[k[3]], known_processes)]

GetByPid(pid_to_process, ppid) ==
  {k \in DOMAIN pid_to_process : k[3] = ppid}

\* pid_to_process.get(ppid): the keys equal to ppid.  ppid is an int, the
\* sequence of that one number, and the keys are strs.
Get(pid_to_process, ppid) ==
  {k \in DOMAIN pid_to_process : k = <<ppid>>}

RECURSIVE ListAncestorsTags(_, _, _)
\* list_ancestors_tags(ppid): the tags collected, and whether the recursion
\* ended within depth further calls (it does not when the parents form a
\* cycle).
ListAncestorsTags(pid_to_process, ppid, depth) ==
  LET found == Get(pid_to_process, ppid)
  IN  IF found = {} THEN [tags |-> <<>>, ended |-> TRUE]
      ELSE LET parent_process == pid_to_process[CHOOSE k \in found : TRUE]
           IN  IF parent_process.ppid \in {0, 1, 2}
               THEN [tags |-> parent_process.own_tags, ended |-> TRUE]
               ELSE IF depth = 0
               THEN [tags |-> parent_process.own_tags, ended |-> FALSE]
               ELSE LET rest == ListAncestorsTags(pid_to_process,
                                                  parent_process.ppid,
                                                  depth - 1)
                    IN  [tags |-> parent_process.own_tags \o rest.tags,
                         ended |-> rest.ended]

OneMinuteDiff(diff, elapsed) ==
  IF elapsed > 0 THEN (diff * 60) \div elapsed
  ELSE 0 - ((diff * 60) \div (0 - elapsed))

\* diff * (60 * 60 / elapsed), the division being exact for the clock
\* values used.
OneHourDiff(diff, elapsed) ==
  IF elapsed > 0 THEN (diff * 3600) \div elapsed
  ELSE 0 - ((diff * 3600) \div (0 - elapsed))

\* The exception list_processes ends with, or "returned": init_process_info
\* reads cpu_times.user of None; in the loop the division by a zero elapsed
\* time comes first for every sample that has a previous one, then the
\* subtraction of None from a number, then the recursion over a cycle of
\* parents.
ScrapeOutcome(table, known_processes, prev, start_time) ==
  IF \E pid \in DOMAIN table : table[pid].cpu_times = <<>>
  THEN "AttributeError"
  ELSE LET pid_to_process == PidToProcess(table, known_processes)
           both == DOMAIN pid_to_process \cap DOMAIN prev
       IN  IF \E k \in both : start_time - prev[k].utc_timestamp[1] = 0
           THEN "ZeroDivisionError"
           ELSE IF \E k \in both :
                     /\ pid_to_process[k].disk_io_read_count # <<>>
                     /\ prev[k].disk_io_read_count = <<>>
           THEN "TypeError"
           ELSE IF \E k \in DOMAIN pid_to_process :
                     ~ListAncestorsTags(pid_to_process,
                                        pid_to_process[k].ppid,
                                        Cardinality(DOMAIN table)).ended
           THEN "RecursionError"
           ELSE "returned"

\* The loop body for one sample p under key k.
SetDiffs(p, k, prev, start_time, pid_to_process) ==
  LET q == [p EXCEPT
             !.long_pid = k,
             !.utc_timestamp = <<start_time>>,
             !.all_tags = @ \o ListAncestorsTags(
                                 pid_to_process, p.ppid,
                                 Cardinality(DOMAIN pid_to_process)).tags]
  IN  IF k \in DOMAIN prev
      THEN LET elapsed == start_time - prev[k].utc_timestamp[1]
           IN  [q EXCEPT
                 !.cpu_user_1h_diff =
                   <<OneHourDiff(p.cpu_user - prev[k].cpu_user, elapsed)>>,
                 !.disk_io_read_count_1h_diff =
                   IF p.disk_io_read_count # <<>>
                   THEN <<OneHourDiff(p.disk_io_read_count[1]
                                      - prev[k].disk_io_read_count[1],
                                      elapsed)>>
                   ELSE <<>>]
      ELSE q

\* Counters only grow: the table agrees with what was sampled before.
Grown(table, prev) ==
  \A pid \in DOMAIN table :
    LET k == LongPid(private_ip, pid, CreateMs[pid])
    IN  k \in DOMAIN prev =>
          /\ table[pid].cpu_times # <<>> =>
               table[pid].cpu_times[1] >= prev[k].cpu_user
          /\ (table[pid].io_read_count # <<>>
              /\ prev[k].disk_io_read_count # <<>>) =>
               table[pid].io_read_count[1] >= prev[k].disk_io_read_count[1]

MergedState(previous, pid_to_process) ==
  [k \in DOMAIN previous \cup DOMAIN pid_to_process |->
     IF k \in DOMAIN pid_to_process THEN pid_to_process[k] ELSE previous[k]]

\* "Process.PREVIOUS_STATE = pid_to_process": the new value of the map.
AssignedState(previous, pid_to_process) == pid_to_process

\* list_processes up to "await get_known_processes()".
ScrapeStart(s) ==
  /\ scrapes[s].pc = "idle"
  /\ scrapes' = [scrapes EXCEPT ![s] = [pc |-> "discovering",
                                        start_time |-> now]]
  /\ UNCHANGED <<now, watchVars, retryVars, clusterVars, callVars, co, bs,
                 PREVIOUS_STATE, listed, discovery>>

\* list_processes from the answer of get_known_processes() to its end.
ScrapeFinish(s, table, known_processes) ==
  /\ scrapes[s].pc = "discovering"
  /\ Grown(table, PREVIOUS_STATE)
  /\ LET start_time == scrapes[s].start_time
         outcome == ScrapeOutcome(table, known_processes, PREVIOUS_STATE,
                                  start_time)
         ended == [outcome |-> outcome, start_time |-> start_time,
                   prev |-> PREVIOUS_STATE,
                   keys |-> {LongPid(private_ip, pid, CreateMs[pid]) :
                               pid \in DOMAIN table},
                   withheld |-> {pid \in DOMAIN table :
                                   table[pid].cpu_times = <<>>},
                   known_processes |-> known_processes,
                   processes |-> <<>>]
     IN  IF outcome = "returned"
         THEN LET pid_to_process == PidToProcess(table, known_processes)
                  processes == [k \in DOMAIN pid_to_process |->
                                  SetDiffs(pid_to_process[k], k,
                                           PREVIOUS_STATE, start_time,
                                           pid_to_process)]
              IN  /\ PREVIOUS_STATE' = AssignedState(PREVIOUS_STATE, processes)
                  /\ listed' = [ended EXCEPT !.processes = processes]
         ELSE /\ PREVIOUS_STATE' = PREVIOUS_STATE
              /\ listed' = ended
  /\ scrapes' = [scrapes EXCEPT ![s] = [pc |-> "idle", start_time |-> 0]]
  /\ UNCHANGED <<now, watchVars, retryVars, clusterVars, callVars, co, bs,
                 discovery>>

\* Time passes on the node.
ScrapeTick(dt) ==
  /\ now + dt <= MaxScrapeClock
  /\ now' = now + dt
  /\ UNCHANGED <<watchVars, retryVars, clusterVars, restVars>>

NextProcess ==
  \/ \E s \in Scrapes : ScrapeStart(s)
  \/ \E s \in Scrapes, table \in ProcessTables, known \in KnownProcesses :
       ScrapeFinish(s, table, known)
  \/ \E dt \in ClockSteps : ScrapeTick(dt)

InitProcess ==
  /\ now = 0
  /\ w_par = [max_retries |-> 1, timeout |-> 0]
  /\ WatchIdle
  /\ r_par = DefaultRetryParams
  /\ RetryIdle
  /\ ClusterUnused
  /\ RestIdle

SpecProcess == InitProcess /\ [][NextProcess]_vars

\* The samples of the last scrape that have a previous sample of the same
\* long_pid.
WithPrevious == listed.keys \cap DOMAIN listed.prev

\* C19: for every sample and every counter the *_1h_diff is present exactly
\* when the previous snapshot holds a sample of the same long_pid and the
\* counter is present in both samples; and the scrape completes whichever of
\* the two samples lacks IO counters.
C19_DiffsWhereBothPresent ==
  /\ listed.outcome # "TypeError"
  /\ listed.outcome = "returned" =>
       \A k \in listed.keys :
         /\ listed.processes[k].cpu_user_1h_diff # <<>>
              <=> k \in DOMAIN listed.prev
         /\ listed.processes[k].disk_io_read_count_1h_diff # <<>>
              <=> /\ k \in DOMAIN listed.prev
                  /\ listed.processes[k].disk_io_read_count # <<>>
                  /\ listed.prev[k].disk_io_read_count # <<>>

\* C20: when the time from the previous snapshot's timestamp to the start of
\* the scrape is zero or negative, the scrape completes and all *_1h_diff
\* fields of the affected samples stay absent.
C20_NoDiffsWithoutElapsedTime ==
  \A k \in WithPrevious :
    listed.start_time - listed.prev[k].utc_timestamp[1] <= 0 =>
      /\ listed.outcome = "returned"
      /\ listed.processes[k].cpu_user_1h_diff = <<>>
      /\ listed.processes[k].disk_io_read_count_1h_diff = <<>>

\* C21: every populated *_1h_diff is (current - previous) * 3600 / elapsed,
\* elapsed being the start time of the scrape minus the utc_timestamp of the
\* previous sample of the same long_pid, which is the start time of the
\* scrape that produced it.
C21_DiffIsHourlyRate ==
  listed.outcome = "returned" =>
    \A k \in listed.keys :
      LET p == listed.processes[k]
      IN  /\ p.cpu_user_1h_diff # <<>> =>
               /\ k \in DOMAIN listed.prev
               /\ p.cpu_user_1h_diff[1]
                    * (listed.start_time - listed.prev[k].utc_timestamp[1])
                  = (p.cpu_user - listed.prev[k].cpu_user) * 3600
          /\ p.disk_io_read_count_1h_diff # <<>> =>
               /\ k \in DOMAIN listed.prev
               /\ p.disk_io_read_count_1h_diff[1]
                    * (listed.start_time - listed.prev[k].utc_timestamp[1])
                  = (p.disk_io_read_count[1]
                     - listed.prev[k].disk_io_read_count[1]) * 3600
          /\ p.utc_timestamp = <<listed.start_time>>

\* C21 witness: cpu_user grew from 10 to 16 and the read count from 4 to 7
\* in 60 seconds: 360 and 180 an hour.
C21_Witness ==
  /\ listed.outcome = "returned"
  /\ \E k \in WithPrevious :
       /\ listed.start_time - listed.prev[k].utc_timestamp[1] = 60
       /\ listed.processes[k].cpu_user_1h_diff = <<360>>
       /\ listed.processes[k].disk_io_read_count_1h_diff = <<180>>

\* C22: after every completed scrape the keys of the previous-snapshot map
\* are the long_pids the scrape emitted: the map is replaced as a whole, and
\* the samples of processes absent from the scrape are gone from it.
C22_MapReplacedAsAWhole ==
  listed.outcome = "returned" =>
    /\ DOMAIN PREVIOUS_STATE = listed.keys
    /\ PREVIOUS_STATE = listed.processes

\* C22 witness: a process sampled by the scrape before is absent from the
\* scrape that just completed, and from the map.
C22_Witness ==
  /\ listed.outcome = "returned"
  /\ listed.keys # {}
  /\ \E k \in DOMAIN listed.prev :
       k \notin listed.keys /\ k \notin DOMAIN PREVIOUS_STATE

\* The samples of the last scrape whose pid is the ppid of sample p.
ParentsOf(p) ==
  {q \in listed.keys : listed.processes[q].pid = p.ppid}

\* C23: in a scrape that returned, all_tags of every sample begins with its
\* own_tags, and for a sample whose parent sample is present in the same
\* scrape the own_tags of the parent follow them (pid 100 under pid 50 gives
\* appscale, a, appscale, b).
C23_AllTagsFollowParents ==
  listed.outcome = "returned" =>
    \A k \in listed.keys :
      LET p == listed.processes[k]
          n == Len(p.own_tags)
      IN  /\ Len(p.all_tags) >= n
          /\ SubSeq(p.all_tags, 1, n) = p.own_tags
          /\ \A q \in ParentsOf(p) :
               LET m == Len(listed.processes[q].own_tags)
               IN  /\ Len(p.all_tags) >= n + m
                   /\ SubSeq(p.all_tags, n + 1, n + m)
                        = listed.processes[q].own_tags

LongPidIsKey(sep) ==
  listed.outcome = "returned" =>
    /\ PREVIOUS_STATE = listed.processes
    /\ \A k \in listed.keys :
         LET p == listed.processes[k]
         IN  /\ p.long_pid = <<private_ip, sep, p.pid, sep, CreateMs[p.pid]>>
             /\ p.long_pid = k
             /\ \A q \in listed.keys :
                  listed.processes[q].long_pid = p.long_pid => q = k
             /\ \A j \in DOMAIN listed.prev :
                  listed.prev[j].pid = p.pid =>
                    /\ listed.prev[j].long_pid = p.long_pid
                    /\ j = k

\* C25 as stated: every sample's long_pid is host ":" pid ":" creation time
\* in milliseconds, distinct within a scrape, the same across scrapes for
\* one process, and the key of the sample in the previous-snapshot map.
C25_LongPidWithColons == LongPidIsKey(":")

\* C25, amended: every sample's long_pid is host "_" pid "_" creation time
\* in milliseconds, distinct within a scrape, the same across scrapes for
\* one process, and the key of the sample in the previous-snapshot map.
C25_LongPidWithUnderscores == LongPidIsKey("_")

\* A scrape returned two samples or more, one of them of a process that the
\* previous snapshot holds too.
C25_Witness ==
  /\ listed.outcome = "returned"
  /\ Cardinality(listed.keys) >= 2
  /\ \E k \in WithPrevious : listed.processes[k].long_pid = k

\* C26: a scrape in which the counters of some process are withheld returns,
\* and returns the samples of exactly the other processes.
C26_ScrapeSurvivesSampleFailure ==
  listed.withheld # {} =>
    /\ listed.outcome = "returned"
    /\ DOMAIN listed.processes =
         {k \in listed.keys : k[3] \notin listed.withheld}

\* C27: at most one execution of list_processes is between taking its start
\* time and replacing the previous-snapshot map.
C27_OneScrapeAtATime ==
  Cardinality({s \in Scrapes : scrapes[s].pc # "idle"}) <= 1

\* ------------------------------------------------------------------------
\* get_known_processes (process.py): the catalog of appscale processes,
\* pid -> tags, from four kinds of shell commands run by helper.subprocess:
\* the two unit listings, one main-PID lookup per unit and the enumeration
\* of the slices.  A str is the sequence of its parts; a command that times
\* out or exits non-zero raises SubprocessError, which is the reply with
\* error set.

Failed == [error |-> TRUE, output |-> <<>>]

Succeeded(output) == [error |-> FALSE, output |-> output]

\* int(): the numbers of the decimal strings the commands print.
IntOf == [d \in {"0", "50", "100"} |-> IF d = "0" THEN 0
                                       ELSE IF d = "50" THEN 50 ELSE 100]

\* The units of the node: with or without the appscale- prefix, the name
\* before "@" and the parts after it.
Units ==
  {[prefix |-> FALSE, before |-> "cassandra", after |-> <<>>],
   [prefix |-> TRUE, before |-> "haproxy", after |-> <<"app">>],
   [prefix |-> TRUE, before |-> "instance-run",
    after |-> <<"testapp", "mod1">>]}

\* [appscale-]<before>[@<part>_<part>...].service
UnitName(u) ==
  (IF u.prefix THEN <<"appscale-">> ELSE <<>>)
    \o <<u.before>>
    \o (IF u.after = <<>> THEN <<>>
        ELSE <<"@">> \o [i \in 1..(2 * Len(u.after) - 1) |->
                           IF i % 2 = 1 THEN u.after[(i + 1) \div 2]
                           ELSE "_"])
    \o <<".service">>

Unit(before) == CHOOSE u \in Units : u.before = before

RECURSIVE Printed(_)
\* The output of a command that prints these lines.
Printed(lines) ==
  IF lines = <<>> THEN <<>>
  ELSE Head(lines) \o <<"\n">> \o Printed(Tail(lines))

\* What the command over the targets may reply.
DependenciesReplies ==
  {Failed, Succeeded(Printed(<<UnitName(Unit("cassandra"))>>))}

\* What list-units may reply.
ServicesReplies ==
  {Failed, Succeeded(<<>>),
   Succeeded(Printed(<<UnitName(Unit("haproxy"))>>)),
   Succeeded(Printed(<<UnitName(Unit("haproxy")),
                       UnitName(Unit("instance-run"))>>))}

\* What "systemctl show --property MainPID --value" may reply.
MainPidReplies ==
  {Failed, Succeeded(<<"100", "\n">>), Succeeded(<<"50", "\n">>),
   Succeeded(<<"0", "\n">>), Succeeded(<<"\n">>)}

\* A line of the enumeration of the slices.
SliceLine(pid, name) ==
  <<pid, " /sys/fs/cgroup/systemd/appscale.slice/appscale-", name, ".slice/">>

\* What the enumeration of the slices may reply.
SliceReplies ==
  {Failed, Succeeded(<<>>),
   Succeeded(Printed(<<SliceLine("100", "datastore")>>)),
   Succeeded(Printed(<<SliceLine("50", "search"),
                       SliceLine("100", "datastore")>>))}

\* SERVICE_NAME_PATTERN.match(service): whether it matches, and its groups
\* before_at and after_at.
ServiceNameMatch(service) ==
  LET rest == IF service # <<>> /\ Head(service) = "appscale-"
              THEN Tail(service) ELSE service
      n == Len(rest)
      none == [matched |-> FALSE, before_at |-> "", after_at |-> <<>>]
  IN  IF n < 2 THEN none
      ELSE IF rest[1] \in {"@", ".service"} THEN none
      ELSE IF rest[2] = ".service"
      THEN [matched |-> TRUE, before_at |-> rest[1], after_at |-> <<>>]
      ELSE IF n >= 4 /\ rest[2] = "@" /\ rest[n] = ".service"
      THEN [matched |-> TRUE, before_at |-> rest[1],
            after_at |-> SubSeq(rest, 3, n - 1)]
      ELSE none

ProcessTagsUnprefixed(before_at, after_at) ==
  << <<"appscale">>, <<before_at>> >>
    \o (IF after_at = <<>> THEN <<>> ELSE Split(after_at, "_"))

\* process_tags: appscale, before_at, and '_' + part for the parts of
\* after_at.split('_').
ProcessTags(before_at, after_at) ==
  LET parts == IF after_at = <<>> THEN <<>> ELSE Split(after_at, "_")
  IN  << <<"appscale">>, <<before_at>> >>
        \o [i \in 1..Len(parts) |-> <<"_">> \o parts[i]]

\* The body of the loop over the services, from the reply of the lookup.
MainPid(known_processes, service, reply) ==
  IF reply.error THEN known_processes
  ELSE LET output == Strip(reply.output, {" ", "\t", "\n"})
           match == ServiceNameMatch(service)
       IN  IF Len(output) = 1 /\ output[1] \in DOMAIN IntOf
              /\ output # <<"0">> /\ match.matched
           THEN (IntOf[output[1]]
                   :> ProcessTags(match.before_at, match.after_at))
                  @@ known_processes
           ELSE known_processes

\* identify_appscale_slice_processes from the reply of its command.
DetectedPids(reply) ==
  IF reply.error THEN <<>>
  ELSE LET lines == Split(Strip(reply.output, {" ", "\t", "\n"}), "\n")
           matching == {i \in 1..Len(lines) :
                          /\ Len(lines[i]) = 4
                          /\ lines[i][1] \in DOMAIN IntOf
                          /\ lines[i] = SliceLine(lines[i][1], lines[i][3])}
           last(pid) == CHOOSE i \in matching :
                          /\ IntOf[lines[i][1]] = pid
                          /\ \A j \in matching :
                               IntOf[lines[j][1]] = pid => j <= i
       IN  [pid \in {IntOf[lines[i][1]] : i \in matching} |->
              << <<"appscale">>, <<lines[last(pid)][3]>> >>]

UpdateMissing(known_processes, slice_processes) ==
  known_processes @@ slice_processes

UpdateOrNothing(known_processes, slice_processes) ==
  IF DOMAIN slice_processes = {} THEN <<>>
  ELSE slice_processes @@ known_processes

\* known_processes.update(slice_processes)
Update(known_processes, slice_processes) ==
  slice_processes @@ known_processes

\* get_known_processes up to the first command.
GetKnownProcesses ==
  /\ discovery.pc = "idle"
  /\ discovery' = [discovery EXCEPT !.pc = "dependencies"]
  /\ UNCHANGED <<now, watchVars, retryVars, clusterVars, callVars, co, bs,
                 PREVIOUS_STATE, scrapes, listed>>

\* identify_appscale_services from the reply of dependencies_cmd.
DependenciesDone(reply) ==
  /\ discovery.pc = "dependencies"
  /\ discovery' = [discovery EXCEPT
                     !.pc = "services",
                     !.listings = <<reply>>,
                     !.services = IF reply.error THEN <<>>
                                  ELSE Split(Strip(reply.output,
                                                   {" ", "\t", "\n"}),
                                             "\n")]
  /\ UNCHANGED <<now, watchVars, retryVars, clusterVars, callVars, co, bs,
                 PREVIOUS_STATE, scrapes, listed>>

\* identify_appscale_services from the reply of services_cmd.
ServicesDone(reply) ==
  /\ discovery.pc = "services"
  /\ LET services == discovery.services
                       \o (IF reply.error THEN <<>>
                           ELSE Split(Strip(reply.output,
                                            {" ", "\t", "\n"}), "\n"))
     IN  discovery' = [discovery EXCEPT
                         !.pc = IF services = <<>> THEN "slice"
                                ELSE "main_pid",
                         !.listings = Append(@, reply),
                         !.services = services]
  /\ UNCHANGED <<now, watchVars, retryVars, clusterVars, callVars, co, bs,
                 PREVIOUS_STATE, scrapes, listed>>

\* The number a main-PID reply is, if it is one other than 0.
NumberOf(reply) ==
  {IntOf[d] : d \in {e \in DOMAIN IntOf :
                       /\ ~reply.error
                       /\ reply.output \in {<<e>>, <<e, "\n">>}
                       /\ IntOf[e] # 0}}

\* One turn of the loop of identify_appscale_service_processes.  systemd
\* gives a process as the main one to one unit only.
MainPidDone(reply) ==
  /\ discovery.pc = "main_pid"
  /\ LET i == Len(discovery.replies) + 1
         service == discovery.services[i]
     IN  /\ \A j \in 1..(i - 1) :
              (NumberOf(reply) # {} /\ reply = discovery.replies[j]) =>
                discovery.services[j] = service
         /\ discovery' = [discovery EXCEPT
                            !.pc = IF i = Len(discovery.services)
                                   THEN "slice" ELSE "main_pid",
                            !.replies = Append(@, reply),
                            !.service_processes = MainPid(@, service, reply)]
  /\ UNCHANGED <<now, watchVars, retryVars, clusterVars, callVars, co, bs,
                 PREVIOUS_STATE, scrapes, listed>>

\* get_known_processes from the reply of the enumeration of the slices.
SliceDone(reply) ==
  /\ discovery.pc = "slice"
  /\ discovery' = [discovery EXCEPT
                     !.pc = "done",
                     !.slice = <<reply>>,
                     !.known_processes =
                       Update(discovery.service_processes,
                              DetectedPids(reply))]
  /\ UNCHANGED <<now, watchVars, retryVars, clusterVars, callVars, co, bs,
                 PREVIOUS_STATE, scrapes, listed>>

NextDiscovery ==
  \/ GetKnownProcesses
  \/ \E reply \in DependenciesReplies : DependenciesDone(reply)
  \/ \E reply \in ServicesReplies : ServicesDone(reply)
  \/ \E reply \in MainPidReplies : MainPidDone(reply)
  \/ \E reply \in SliceReplies : SliceDone(reply)

SpecDiscovery == InitProcess /\ [][NextDiscovery]_vars

\* The tags of unit u as the unit is named.
TagsOf(u) ==
  << <<"appscale">>, <<u.before>> >>
    \o [i \in 1..Len(u.after) |-> <<"_", u.after[i]>>]

\* Whether the str part is in the output of the reply.
Prints(reply, part) ==
  \E i \in 1..(Len(reply.output) - Len(part) + 1) :
    SubSeq(reply.output, i, i + Len(part) - 1) = part

\* The pid and name of the lines that the enumeration of the slices gave.
Enumerated ==
  {e \in {100, 50} \X {"datastore", "search"} :
     \E d \in DOMAIN IntOf :
       /\ IntOf[d] = e[1]
       /\ Prints(discovery.slice[1], SliceLine(d, e[2]))}

\* C28: when get_known_processes has ended, a unit named
\* [appscale-]<before>[@<after>].service whose main-PID reply is a number P
\* other than 0 has the entry P -> appscale, <before>, "_" + part for each
\* part of <after>, in the unit-based entries and, unless a slice names P,
\* in the catalog; and every unit-based entry is for the number of such a
\* reply, so a reply that is no number or 0 gives no entry.
C28_UnitTags ==
  discovery.pc = "done" =>
    /\ \A i \in 1..Len(discovery.replies), u \in Units :
         discovery.services[i] = UnitName(u) =>
           \A P \in NumberOf(discovery.replies[i]) :
             /\ P \in DOMAIN discovery.service_processes
             /\ discovery.service_processes[P] = TagsOf(u)
             /\ P \notin {e[1] : e \in Enumerated} =>
                  discovery.known_processes[P] = TagsOf(u)
    /\ \A P \in DOMAIN discovery.service_processes :
         \E i \in 1..Len(discovery.replies) :
           P \in NumberOf(discovery.replies[i])

\* The unit with two parts after "@" replied 100 and another unit replied 0.
C28_Witness ==
  /\ discovery.pc = "done"
  /\ \E i \in 1..Len(discovery.replies), j \in 1..Len(discovery.replies) :
       /\ discovery.services[i] = UnitName(Unit("instance-run"))
       /\ NumberOf(discovery.replies[i]) = {100}
       /\ discovery.replies[j] = Succeeded(<<"0", "\n">>)
  /\ Len(discovery.known_processes[100]) = 4

\* C29: when get_known_processes has ended, the catalog has an entry for
\* every pid of the unit-based entries and of the lines of the slices and
\* for no other; a pid of a slice line maps to appscale, <slice name>, also
\* when a unit gave it too; every other pid maps to its unit-based tags.
C29_SliceEntriesReplaceUnitEntries ==
  discovery.pc = "done" =>
    /\ DOMAIN discovery.known_processes =
         DOMAIN discovery.service_processes \cup {e[1] : e \in Enumerated}
    /\ \A e \in Enumerated :
         discovery.known_processes[e[1]] = << <<"appscale">>, <<e[2]>> >>
    /\ \A P \in DOMAIN discovery.service_processes :
         P \notin {e[1] : e \in Enumerated} =>
           discovery.known_processes[P] = discovery.service_processes[P]

\* A pid was given by a unit and by a slice line.
C29_Witness ==
  /\ discovery.pc = "done"
  /\ \E e \in Enumerated :
       /\ e[1] \in DOMAIN discovery.service_processes
       /\ discovery.service_processes[e[1]] # discovery.known_processes[e[1]]

\* C30: when get_known_processes has ended, whichever commands failed: every
\* unit printed by a listing that succeeded was looked up; every unit whose
\* own lookup gave a number other than 0 has its pid in the catalog; with
\* the enumeration of the slices failed the catalog is the unit-based
\* entries; and with every listing or every lookup failed, and the
\* enumeration of the slices too, the catalog is empty.
C30_FailuresLoseOnlyTheirData ==
  discovery.pc = "done" =>
    /\ Len(discovery.replies) = Len(discovery.services)
    /\ \A r \in 1..2, u \in Units :
         Prints(discovery.listings[r], UnitName(u)) =>
           \E i \in 1..Len(discovery.services) :
             discovery.services[i] = UnitName(u)
    /\ \A i \in 1..Len(discovery.replies), u \in Units :
         discovery.services[i] = UnitName(u) =>
           NumberOf(discovery.replies[i])
             \subseteq DOMAIN discovery.known_processes
    /\ discovery.slice[1].error =>
         discovery.known_processes = discovery.service_processes
    /\ (/\ discovery.slice[1].error
        /\ \/ \A r \in 1..2 : discovery.listings[r].error
           \/ \A i \in 1..Len(discovery.replies) :
                discovery.replies[i].error) =>
         DOMAIN discovery.known_processes = {}

\* One listing failed, one lookup failed, the enumeration of the slices
\* failed, and the catalog has the entry of the lookup that succeeded.
C30_Witness ==
  /\ discovery.pc = "done"
  /\ discovery.listings[1].error
  /\ ~discovery.listings[2].error
  /\ discovery.slice[1].error
  /\ \E i \in 1..Len(discovery.replies), j \in 1..Len(discovery.replies) :
       /\ discovery.replies[i].error
       /\ NumberOf(discovery.replies[j]) # {}
  /\ DOMAIN discovery.known_processes # {}

\* C31: in a scrape that returned, the own_tags of a sample whose pid the
\* catalog holds are the catalog's tags for it, whatever the name of the
\* process, and begin with appscale; the own_tags of any other sample are
\* the name of the process and nothing else.
C31_OwnTagsFromCatalogOrName ==
  listed.outcome = "returned" =>
    \A k \in listed.keys :
      LET p == listed.processes[k]
      IN  IF p.pid \in DOMAIN listed.known_processes
          THEN /\ p.own_tags = listed.known_processes[p.pid]
               /\ p.own_tags[1] = "appscale"
          ELSE p.own_tags = <<p.name>>

\* A scrape returned one sample tagged by the catalog and one by its name.
C31_Witness ==
  /\ listed.outcome = "returned"
  /\ \E k \in listed.keys, j \in listed.keys :
       /\ listed.processes[k].pid \in DOMAIN listed.known_processes
       /\ listed.processes[k].own_tags # <<listed.processes[k].name>>
       /\ listed.processes[j].pid \notin DOMAIN listed.known_processes
       /\ listed.processes[j].own_tags = <<listed.processes[j].name>>

\* C32: a cluster request whose body is present but holds no array of
\* locations is answered with 400 and nothing, local or remote, is queried
\* for it; a request without a body goes over the default locations.
C32_BodyWithoutLocationsArray ==
  \A r \in Reqs :
    q_log[r].body # <<>> =>
      LET body == q_log[r].body[1]
      IN  /\ (body.has_body /\ ~(body.valid /\ body.is_array)) =>
                /\ q_status[r] = 400
                /\ hermes_locations[r] = <<>>
                /\ q_log[r].local = 0
                /\ q_log[r].gets = <<>>
          /\ ~body.has_body => hermes_locations[r] = DefaultIps

\* How many process_node_result tasks of request r for location l have
\* ended.
Served(r, l) ==
  Cardinality({i \in 1..Len(hermes_locations[r]) :
                 hermes_locations[r][i] = l}) - q_pending[r][l]

\* C33: for a request whose fan-out has begun, the local sampler was called
\* once for every task that ended for a location whose host is the private
\* IP, and no HTTP request went to that host; and to any other host and port
\* went as many HTTP requests as tasks ended for the locations with that
\* host and that port, a location without port counting for port 4378.
C33_LocalInProcessOthersOneRequest ==
  \A r \in Reqs :
    q_pc[r] \in {"fanout", "done"} /\ q_status[r] # 400 =>
      /\ q_log[r].local =
           Sum([l \in Locations |->
                  IF l.host = private_ip THEN Served(r, l) ELSE 0],
               Locations)
      /\ \A i \in 1..Len(q_log[r].gets) :
           q_log[r].gets[i].host # private_ip
      /\ \A h \in RemoteHosts, port \in {HERMES_PORT, NoPort} :
           Cardinality({i \in 1..Len(q_log[r].gets) :
                          q_log[r].gets[i] = [host |-> h, port |-> port]})
             = IF port = NoPort THEN 0
               ELSE Served(r, Location(h, NoPort))
                      + Served(r, Location(h, HERMES_PORT))

\* A request over the local node and a remote location without port has
\* been answered.
C33_Witness ==
  \E r \in Reqs :
    /\ q_pc[r] = "done"
    /\ q_status[r] = 200
    /\ q_log[r].local = 1
    /\ q_log[r].gets = <<[host |-> "10.0.2.16", port |-> HERMES_PORT]>>

\* The requests that are inside "async with max_concurrency".
Holding == {r \in Reqs : q_pc[r] = "fanout"}

\* The requests of which a process_node_result task has not ended.
Running == {r \in Reqs : \E l \in Locations : q_pending[r][l] > 0}

\* C40: a request holds its permit for as long as any of the tasks of its
\* fan-out runs.
C40_PermitHeldThroughoutFanout == Running \subseteq Holding

\* What does hold of the permits: at all times the permits taken from the
\* semaphore are one for every request inside "async with" and none for any
\* other, whatever was served locally and whatever the peers answered, so
\* that they never exceed 100 and are none when no request is in progress;
\* and a request that waits for a permit gets to its fan-out.
OnePermitPerFanout ==
  /\ [](/\ MaxConcurrency - max_concurrency = Cardinality(Holding)
        /\ MaxConcurrency - max_concurrency <= 100
        /\ (\A r \in Reqs : q_pc[r] \in {"idle", "done"}) =>
             max_concurrency = MaxConcurrency)
  /\ \A r \in Reqs : (q_pc[r] = "acquiring") ~> (q_pc[r] = "fanout")

\* A request that served the local node and one whose peer failed with an
\* exception other than HermesError have both ended.
BothEnded ==
  /\ max_concurrency = MaxConcurrency
  /\ \E r \in Reqs, q \in Reqs :
       /\ q_pc[r] = "done" /\ q_log[r].local > 0
       /\ q_pc[q] = "done" /\ q_status[q] = 500

\* ------------------------------------------------------------------------
\* More properties of _PersistentWatch.

\* C34: when a call resumes from a wait that ended by its timeout while some
\* call waits for the lock, whenever that call arrived, it does not invoke
\* func again: it returns normally without result or error, and the lock
\* passes to the first call waiting for it.
C34_ExpiredSleeperYieldsToWaiters ==
  [][\A c \in Calls :
       (/\ w_pc[c] = "expired"
        /\ w_pc'[c] # "expired"
        /\ lk[w_lock[c]].waiters > 0) =>
         /\ w_pc'[c] = "done"
         /\ w_out'[c] = "superseded"
         /\ w_calls'[c] = w_calls[c]
         /\ lk'[w_lock[c]].holder = Head(lk[w_lock[c]].queue)
         /\ w_pc'[Head(lk[w_lock[c]].queue)] = "acquired"]_vars

\* C34 witness: a call that no arrival woke from any of its sleeps has
\* returned superseded, and the call that was waiting has the lock.
C34_Witness ==
  \E c, d \in Calls :
    /\ w_pc[c] = "done" /\ w_out[c] = "superseded"
    /\ w_during[c] = {}
    /\ c \in w_conc[d]
    /\ w_pc[d] = "acquired"
    /\ lk[w_lock[d]].holder = d

\* c is made in this step.
Arrives(c) == w_pc[c] = "idle" /\ w_pc'[c] # "idle"

\* C35: a call waits for a lock only while a call for the same node through
\* the same serializer has it, a sleeping call is woken only by the arrival
\* of such a call, and only a call that such a call overlapped returns
\* superseded; a call for another node, or for the same node through the
\* other serializer, changes nothing of it.
C35_OnlySameNodeSameInstance ==
  [][/\ \A c \in Calls :
          w_pc'[c] = "waiting" =>
            \E d \in Calls \ {c} :
              /\ w_node'[d] = w_node'[c]
              /\ InCritical(d)' \/ w_pc'[d] = "acquired"
     /\ \A d \in Calls :
          (w_pc[d] = "sleeping" /\ w_pc'[d] = "woken") =>
            \E c \in Calls : Arrives(c) /\ w_node'[c] = w_node[d]
     /\ \A d \in Calls :
          (w_pc'[d] = "done" /\ w_out'[d] = "superseded") =>
            \E c \in Calls \ {d} :
              /\ Started(c)' /\ w_node'[c] = w_node'[d] /\ d \in w_conc'[c]
     /\ \A c, d \in Calls :
          (Arrives(c) /\ InProgress(d) /\ w_node'[c] # w_node[d]) =>
            /\ w_pc'[d] = w_pc[d]
            /\ lk'[w_lock[d]] = lk[w_lock[d]]
            /\ locks'[w_node[d]] = locks[w_node[d]]]_vars

\* C35 witness: a call sleeps between retries while a later call for another
\* node and a still later one for the same node through the other serializer
\* are invoking func.
C35_Witness ==
  \E a, b, c \in Calls :
    /\ a < b /\ b < c
    /\ w_pc[a] = "sleeping" /\ w_node[a] = retry_data_watch_coroutine["/a"]
    /\ w_pc[b] = "running" /\ w_node[b] = retry_data_watch_coroutine["/b"]
    /\ w_pc[c] = "running" /\ w_node[c] = retry_children_watch_coroutine["/a"]

\* C36: every call that is made returns, whatever the number of calls for
\* its node that wait with it: no call stays waiting for the lock, invoking
\* func or sleeping.
C36_EveryCallReturns ==
  \A c \in Calls : Started(c) ~> (w_pc[c] = "done")

\* C36 witness: all calls were made for one node, each while the ones before
\* it were still in progress, and all have returned: one by func's error,
\* one superseded and one with a result.
C36_Witness ==
  /\ \A c \in Calls : w_pc[c] = "done"
  /\ \A c, d \in Calls : c < d => c \in w_conc[d]
  /\ \E c, d, e \in Calls :
       w_out[c] = "error" /\ w_out[d] = "superseded" /\ w_out[e] = "result"

\* C37: a call that has the lock has invoked func, and so has every call
\* that returned, superseded or not, whichever calls were waiting when it
\* got the lock.
C37_FirstAttemptAlwaysMade ==
  \A c \in Calls :
    /\ InCritical(c) => w_calls[c] >= 1
    /\ w_pc[c] = "done" => w_calls[c] >= 1
    /\ w_calls[c] = 0 => w_out[c] = "none"

\* C37 witness: d arrived while c was still waiting behind a; c got the lock
\* with d waiting, invoked func once and returned superseded without having
\* been woken.
C37_Witness ==
  \E a, c, d \in Calls :
    /\ a \in w_conc[c] /\ a \in w_conc[d] /\ c \in w_conc[d]
    /\ w_pc[c] = "done" /\ w_out[c] = "superseded"
    /\ w_calls[c] = 1
    /\ w_during[c] = {}

\* The calls whose lock.acquire() has not returned to them yet: queued, or
\* handed the lock and not resumed.
Blocked(id) ==
  {c \in Calls : w_lock[c] = id /\ w_pc[c] \in {"waiting", "acquired"}}

\* C38: for every call in progress the table holds, for its node, the lock
\* the call looked up; the waiters of that lock are as many as the calls
\* whose acquire() of it has not returned; and no del has raised KeyError.
C38_TableAndWaitersAgree ==
  \A c \in Calls :
    /\ InProgress(c) =>
         /\ locks[w_node[c]] = w_lock[c]
         /\ lk[w_lock[c]].waiters = Cardinality(Blocked(w_lock[c]))
    /\ w_out[c] # "key_error"

\* C38 witness: a call has left while two others waited for its lock; one of
\* them has been handed the lock, the other is queued, and both count.
C38_Witness ==
  \E a, c, d \in Calls :
    /\ w_pc[a] = "done" /\ a \in w_conc[c] /\ a \in w_conc[d]
    /\ w_pc[c] = "acquired" /\ w_pc[d] = "waiting"
    /\ w_lock[c] = w_lock[a] /\ w_lock[d] = w_lock[a]
    /\ locks[w_node[c]] = w_lock[c]
    /\ lk[w_lock[c]].waiters = 2

\* ------------------------------------------------------------------------
\* More properties of _Retry.wrap.

\* C39: a retryer with max_retries 0 never gives up by the attempt count and
\* one with timeout 0 never by the timeout; with both 0 its sequence never
\* raises StopIteration, and while every invocation raises an error that the
\* predicate accepts the wrapper goes on invoking and sleeping.
C39_ZeroDisablesTheLimits ==
  /\ r_par.max_retries = 0 => r_cause # "retries"
  /\ r_par.timeout = 0 => r_cause # "timeout"
  /\ (r_par.max_retries = 0 /\ r_par.timeout = 0) =>
       /\ r_out # "none_returned"
       /\ r_all_accepted => (r_pc # "done" /\ r_out = "none")
       /\ Len(r_sleeps) >= r_calls - 1

\* C39 witness: with max_retries 0 and timeout 0 every invocation has raised
\* an accepted error, and the wrapper is in its fifth invocation after four
\* sleeps.
C39_Witness ==
  /\ r_par.max_retries = 0
  /\ r_par.timeout = 0
  /\ r_all_accepted
  /\ r_pc = "calling"
  /\ r_calls = MaxInvocations
  /\ Len(r_sleeps) = MaxInvocations - 1

====
